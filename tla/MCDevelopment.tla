--------------------------- MODULE MCDevelopment ---------------------------
EXTENDS Development, TLC

CONSTANTS v1, v2, s1, s2

\* The replacement matches in the version that is wrong.
MCRepair == v1 :> v2

Asks ==
    [mode |-> "invoke", plan |-> FALSE, post |-> FALSE, ravel |-> FALSE, debug |-> TRUE,
     family |-> TRUE, repair |-> "full", authorized |-> TRUE, permitted |-> TRUE,
     depth |-> "minimal", minimize |-> FALSE]

Local == [source |-> v1, tests |-> s1, scope |-> "local", sufficient |-> TRUE]
Wide == [Local EXCEPT !.scope = "selected_repositories", !.sufficient = FALSE, !.tests = s2]

MCPlanSet == {[q EXCEPT !.source = v] : q \in {Local, Wide}, v \in Versions}

None == [n \in Names |-> Nil]

\* Actions has run a test that failed, and debugged it in part.
HandedOn(plan, selection) ==
    [None EXCEPT !["plan"] = plan,
                 !["result"] = [run |-> <<0, "before">>, tests |-> selection, verdict |-> "FAIL"],
                 !["witness"] = [id |-> <<0, TRUE>>, run |-> <<0, "before">>, valid |-> TRUE,
                                 observation |-> "complete"],
                 !["validation"] = [witness |-> <<0, TRUE>>, valid |-> TRUE],
                 !["inspection"] = [witness |-> <<0, TRUE>>],
                 !["handoff"] = [verdict |-> "PASS",
                                 references |->
                                    [validation |-> [witness |-> <<0, TRUE>>, valid |-> TRUE],
                                     inspection |-> [witness |-> <<1, TRUE>>]]]]

\* Two calls, at once or one after the other: failures that are repaired without
\* plans, with plans that RAVEL makes, with a plan that is given, and after a
\* handoff; one call while plans and source are changed; one call of every other
\* kind, and of those that are refused.
MCSituations ==
    LET planned == [None EXCEPT !["plan"] = Local, !["post-plan"] = [Local EXCEPT !.source = v2]]
        routed == [None EXCEPT !["plan"] = Wide, !["post-plan"] = [Wide EXCEPT !.source = v2]]
        post == [Asks EXCEPT !.plan = TRUE, !.post = TRUE]
        ravel == [Asks EXCEPT !.plan = TRUE, !.ravel = TRUE]
        consume == [Asks EXCEPT !.mode = "consume"]
    IN  {[files |-> None, requests |-> {Asks}, calls |-> 2, edits |-> 0],
         [files |-> HandedOn(Local, s1),
          requests |-> {[ravel EXCEPT !.mode = "consume"]}, calls |-> 2, edits |-> 0],
         [files |-> planned, requests |-> {post, [ravel EXCEPT !.repair = "none"]}, calls |-> 2,
          edits |-> 0],
         [files |-> HandedOn(Nil, "all"), requests |-> {consume, Asks}, calls |-> 2, edits |-> 0],
         [files |-> routed, calls |-> 1, edits |-> 2,
          requests |-> {post, ravel, [ravel EXCEPT !.family = FALSE]}],
         [files |-> None, calls |-> 1, edits |-> 0,
          requests |-> {[Asks EXCEPT !.repair = "none"], [Asks EXCEPT !.repair = "partial"],
                        [Asks EXCEPT !.authorized = FALSE],
                        [Asks EXCEPT !.permitted = FALSE], [Asks EXCEPT !.debug = FALSE],
                        [Asks EXCEPT !.minimize = TRUE], [Asks EXCEPT !.depth = "standard"]}],
         [files |-> [planned EXCEPT !["post-plan"] = Local], calls |-> 1, edits |-> 1,
          requests |-> {post, [Asks EXCEPT !.plan = TRUE],
                        [Asks EXCEPT !.plan = TRUE, !.repair = "pathless"]}]}

Symmetry == Permutations(Procs)
=============================================================================
