------------------------------ MODULE CardFlow ------------------------------
(***************************************************************************)
(* What the engine promises about the cards and the outcome, whatever the  *)
(* rules of legality and turn order are: a card goes from the stock to a   *)
(* player, from a player to the table, and from the table either out of    *)
(* the game or back to one player; never anywhere else.  The game is won   *)
(* only by a player who has got rid of every card with the stock gone.     *)
(* Once it is over no card moves; it may still be cancelled.               *)
(***************************************************************************)
CONSTANTS Players, Deck

VARIABLES
    stock,    \* cards not drawn yet
    held,     \* [Players -> cards in any of the player's zones]
    table,    \* cards of the play pile
    discard,  \* cards out of the game
    outcome   \* "open", "won" or "cancelled"

vars == <<stock, held, table, discard, outcome>>

Init ==
    /\ held \in [Players -> SUBSET Deck]
    /\ \A p, q \in Players : p # q => held[p] \cap held[q] = {}
    /\ stock = Deck \ UNION {held[p] : p \in Players}
    /\ table = {}
    /\ discard = {}
    /\ outcome = "open"

Settle(p) ==
    outcome' = IF stock' = {} /\ held'[p] = {} THEN "won" ELSE "open"

\* A player plays cards; the table may be discarded with them; he may draw.
Play(p) ==
    /\ \E cards \in (SUBSET held[p]) \ {{}} : \E drawn \in SUBSET stock :
          /\ held' = [held EXCEPT ![p] = (@ \ cards) \cup drawn]
          /\ stock' = stock \ drawn
          /\ \/ table' = table \cup cards /\ discard' = discard
             \/ table' = {} /\ discard' = discard \cup table \cup cards
    /\ Settle(p)

\* A player's last Queen is on the table and not declared yet: not won so far.
PlayLast(p) ==
    /\ stock = {} /\ held[p] # {}
    /\ held' = [held EXCEPT ![p] = {}]
    /\ table' = table \cup held[p]
    /\ UNCHANGED <<stock, discard, outcome>>

\* A player draws without playing.
Draw(p) ==
    /\ \E drawn \in SUBSET stock : /\ held' = [held EXCEPT ![p] = @ \cup drawn]
                                   /\ stock' = stock \ drawn
    /\ UNCHANGED <<table, discard>>
    /\ Settle(p)

PickUp(p) ==
    /\ table # {}
    /\ held' = [held EXCEPT ![p] = @ \cup table]
    /\ table' = {}
    /\ UNCHANGED <<stock, discard, outcome>>

Cancel ==
    /\ outcome' = "cancelled"
    /\ UNCHANGED <<stock, held, table, discard>>

Next ==
    \/ /\ outcome = "open"
       /\ \E p \in Players : Play(p) \/ PlayLast(p) \/ Draw(p) \/ PickUp(p)
    \/ Cancel

Spec == Init /\ [][Next]_vars

=============================================================================
