----------------------------- MODULE MCRegistry -----------------------------
(* Small instances of ProviderChoice for TLC. *)
EXTENDS ProviderChoice

CONSTANTS i1, i2, p1, q1, p2, w1, w2, main, baseURL

(* p1 and q1 are two versions of one provider. *)
MCIDOf == [p \in Provider |-> IF p = p2 THEN i2 ELSE i1]

MCBatches == {<<>>, <<p1>>, <<q1>>, <<p2>>, <<p1, p2>>, <<p2, q1>>, <<q1, p1>>}

Good(p) == [provider |-> p, defects |-> {}]

Bad(p) == [provider |-> p, defects |-> {baseURL}]

MCEmbedded == <<Good(p1)>>

MCDirectories ==
  {Missing, <<>>, <<Good(p2), Good(q1)>>, <<Good(q1)>>, <<Good(q1), Good(p1)>>,
   <<Good(p2), Bad(q1)>>, <<Unreadable, Good(p2)>>}

MCAlphabet == <<i1, i2>>

MCSymmetry == Permutations(Writer \ {Main})
=============================================================================
