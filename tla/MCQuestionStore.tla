-------------------------- MODULE MCQuestionStore --------------------------
(* Two browsers; one user, two administrators and one without an account.  *)
EXTENDS QuestionStore, TLC
CONSTANTS root, dan, ada, eve, b1, b2, twoSum, basic
MCFirstRole == [e \in Emails |-> CASE e = root -> "SUPER_ADMIN" [] e = dan -> "ADMIN"
                                   [] e = ada -> "USER" [] e = eve -> None]
MCStarts ==
    {[b \in Browsers |-> IF b = b1 THEN s[1] ELSE s[2]] :
        s \in {<<ada, root>>, <<root, None>>}}
(* A fixed row, of a kind that nobody asks for. *)
MCFallback == [q \in {twoSum} |-> basic]
(* Ids and kinds are only compared. *)
Alike == Permutations(Questions) \cup Permutations(Kinds)
=============================================================================
