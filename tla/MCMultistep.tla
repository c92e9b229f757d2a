---------------------------- MODULE MCMultistep ----------------------------
(* Multistep for TLC: the forms of Last steps, but for differences the code  *)
(* does not see (what an unmet step says, `always` of the first one and of   *)
(* one with an approval, after which nothing has failed yet). A form that    *)
(* asks for an approval before everything has two plain steps.               *)
EXTENDS Multistep, TLC

MCSteps == {f \in [Step -> StepForm] :
              /\ ~f[1].always
              /\ \A s \in Step : /\ ~f[s].met => ~(f[s].approval \/ f[s].always \/ f[s].continue)
                                 /\ ~(f[s].approval /\ f[s].always)}
MCForm == {f \in [global : BOOLEAN, steps : MCSteps] :
             f.global => \A s \in Step : f.steps[s].met /\ ~f.steps[s].approval}
=============================================================================
