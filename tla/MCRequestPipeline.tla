-------------------------- MODULE MCRequestPipeline --------------------------
(***************************************************************************)
(* A small instance of RequestPipeline for TLC.  The requests are numbers, *)
(* and only one of the behaviours that differ in who is who is checked:    *)
(* the kinds are in order, and the first process serves the first request. *)
(***************************************************************************)
EXTENDS RequestPipeline, FiniteSets

CONSTANT p1

Request(route, token, input) == [route |-> route, token |-> token, input |-> input]

\* Every way through the pipeline.
MCAny ==
    {Request("session", FALSE, "good"), Request("session", FALSE, "invalid"),
     Request("signup", FALSE, "good"), Request("create", TRUE, "malformed"),
     Request("remove", TRUE, "good"), Request("remove", FALSE, "good"),
     Request("nowhere", FALSE, "good"), Request("probe", FALSE, "good")}

\* The two that meet one limiter and both, and always pass what is behind.
MCRead == Request("read", FALSE, "good")
MCSession == Request("session", FALSE, "good")

MCWorkload == MCAny \cup {MCRead}

\* One request of any kind among readers and a sign-in.
MCInit ==
    /\ Init
    /\ proc[1] = p1
    /\ kind[1] \in MCAny
    /\ kind[2] \in {MCRead, MCSession}
    /\ kind[3] = MCRead

MCSpec == MCInit /\ [][Next]_vars /\ Fairness

MCOutcomes == {"ok", "CONFLICT"}
=============================================================================
