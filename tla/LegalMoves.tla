----------------------------- MODULE LegalMoves -----------------------------
(***************************************************************************)
(* legal-moves.ts: the moves enumerated for the AI opponents.  A play from *)
(* the hand or the face-up zone is named by its rank and number of cards:  *)
(* the enumerator lists the first cards of a rank, and which of them they  *)
(* are makes no difference to the rules.                                   *)
(***************************************************************************)
EXTENDS GameEngine

SameRank(p, rank) == {c \in OpenCards(p) : RankOf[c] = rank}

(***************************************************************************)
(* enumeratePlayCardsActions, with groupCardsByRank and isRankLegal: of    *)
(* each legal rank one card up to all of them, of jokers one at a time.    *)
(***************************************************************************)
EnumeratePlays(p) ==
    {play \in Ranks \X (1 .. Cardinality(OpenCards(p))) :
        LET same == SameRank(p, play[1])
        IN  /\ same # {} /\ \A c \in same : IsLegal(c)
            /\ play[2] =< IF play[1] = Joker THEN 1 ELSE Cardinality(same)}

\* Mutant: the pile may be picked up instead of the play owed after clearing.
MutantPickUpListed(p) == phase \in {Playing, Clearing}

PickUpListed(p) == phase = Playing /\ playPile # << >>

(***************************************************************************)
(* enumerateLegalMoves, its four lists.                                    *)
(***************************************************************************)
NoMoves == [plays |-> {}, blind |-> {}, pickUp |-> FALSE, declare |-> {}]

EnumerateLegalMoves(p) ==
    IF phase \in Terminal \/ p # currentPlayerIndex \/ ActiveZone(p) = "finished"
    THEN NoMoves
    ELSE IF phase = Queening
    THEN [plays |-> {}, blind |-> {}, pickUp |-> FALSE, declare |-> {"higher", "lower"}]
    ELSE [plays   |-> EnumeratePlays(p),
          blind   |-> IF ActiveZone(p) = "faceDown" THEN faceDown[p] ELSE {},
          pickUp  |-> PickUpListed(p),
          declare |-> {}]

-----------------------------------------------------------------------------
(* The moves validateAction accepts, in the same form.                     *)

AcceptedMoves(p) ==
    [plays   |-> {<<RankOf[ids[1]], Len(ids)>> :
                     ids \in {s \in Selections(p) : MayPlay(p, s)}},
     blind   |-> {c \in faceDown[p] : MayPlayBlind(p, c)},
     pickUp  |-> MayAct(p, {Playing}) /\ playPile # << >>,
     declare |-> {d \in {"higher", "lower"} : MayAct(p, {Queening})}]

\* ai-opponent-module.md: the enumerator computes the same legality rules as
\* the validator.  Whatever the state, it lists exactly the moves that would
\* be accepted: an AI never sees its move rejected, nor misses one.
EnumerationExact ==
    \A p \in Players : EnumerateLegalMoves(p) = AcceptedMoves(p)

=============================================================================
