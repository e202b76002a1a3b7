--------------------------- MODULE MCRevisionReview ---------------------------
(* The instance of RevisionReview that TLC checks: a first version and two   *)
(* that drop, move, repeat and reword its requirements.                      *)
EXTENDS RevisionReview, TLC

MCTexts == {"a", "b", "c"}
MCSections == {"s", "t"}
Row(t, q, s) == [text |-> t, req |-> q, sec |-> s]
MCFiles == {<<Row("a", 1, "s"), Row("b", None, "s"), Row("a", None, "s")>>,
            <<Row("b", 1, "t"), Row("c", None, "s")>>}
\* b and c share words, a shares none with either.
MCSimilarity == [p \in MCTexts \X MCTexts |->
                   IF p[1] = p[2] THEN 100 ELSE IF "a" \in {p[1], p[2]} THEN 0 ELSE 60]
MCOtherRows == {Row("c", None, "s"), Row("b", None, "s")}
=============================================================================
