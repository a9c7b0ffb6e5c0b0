----------------------------- MODULE RemoteCall -----------------------------
(***************************************************************************)
(* What the outbound client promises to its callers, with no breaker, no   *)
(* waits and no deadlines: a call sends its request at most MaxAttempts    *)
(* times and not once more after its answer; the upstream carries out what *)
(* was sent, each at most once but possibly after the answer; and success  *)
(* is answered only for a request that was carried out, a rejection only   *)
(* for one that was sent.                                                  *)
(***************************************************************************)
EXTENDS Naturals

CONSTANTS Calls, MaxAttempts

VARIABLES
    sent,       \* how often each request was sent
    carried,    \* how often it was carried out
    answer      \* what its caller got

call == <<sent, carried, answer>>

Init ==
    /\ sent = [c \in Calls |-> 0]
    /\ carried = [c \in Calls |-> 0]
    /\ answer = [c \in Calls |-> "none"]

Send(c) ==
    /\ answer[c] = "none" /\ sent[c] < MaxAttempts
    /\ sent' = [sent EXCEPT ![c] = @ + 1]
    /\ UNCHANGED <<carried, answer>>

CarryOut(c) ==
    /\ carried[c] < sent[c]
    /\ carried' = [carried EXCEPT ![c] = @ + 1]
    /\ UNCHANGED <<sent, answer>>

\* The answers a caller can be given: an error says nothing of the request.
Answers(c) ==
    {"error"} \cup (IF sent[c] > 0 THEN {"rejected"} ELSE {})
              \cup (IF carried[c] > 0 THEN {"ok", "unread"} ELSE {})

Answer(c) ==
    /\ answer[c] = "none"
    /\ \E a \in Answers(c) : answer' = [answer EXCEPT ![c] = a]
    /\ UNCHANGED <<sent, carried>>

\* The next call takes the place of one that was answered.
Renew(c) ==
    /\ answer[c] # "none"
    /\ sent' = [sent EXCEPT ![c] = 0]
    /\ carried' = [carried EXCEPT ![c] = 0]
    /\ answer' = [answer EXCEPT ![c] = "none"]

Next == \E c \in Calls : Send(c) \/ CarryOut(c) \/ Answer(c) \/ Renew(c)

Spec == Init /\ [][Next]_call
=============================================================================
