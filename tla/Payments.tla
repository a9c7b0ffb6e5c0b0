------------------------------ MODULE Payments ------------------------------
(***************************************************************************)
(* Payments over SNAP BI: usecase/payment_usecase.go on the client of      *)
(* integration/snapbi.  A call asks the bank to carry out a transfer or an *)
(* inquiry; it needs the bank's access token, which all processes share in *)
(* Redis (cache.GetOrLoad).                                                *)
(*                                                                         *)
(* The shared HTTP client (ResilientClient) appears by what it does to a   *)
(* request: it sends up to MaxAttempts copies, hears the bank for Timeout  *)
(* after its start, and reports the bank's reply to one of them or a       *)
(* failure; a failure may come later, since the waits between attempts do  *)
(* not heed the timeout.  A copy may arrive after that, or never.  What    *)
(* needs no network takes no time.                                         *)
(***************************************************************************)
EXTENDS Integers, FiniteSets

CONSTANTS
    Calls,         \* calls of the use case
    Kinds,         \* what they may be: "transfer", "inquiry", "invalid"
    MaxAttempts,   \* copies of a request that the HTTP client may send
    Timeout,       \* the HTTP client's timeout
    TTLs,          \* what snap_bi.access_token_ttl may be set to
    Margin,        \* how much of it is not used: a minute
    Fallback,      \* used when nothing is left: thirteen minutes
    Life,          \* how long the bank honours a token
    MaxTokens,     \* bound on the tokens the bank issues
    MaxClock,      \* bound on the clock
    MaxFaults,     \* bound on failures of Redis, revocations and empty tokens
    NoEntry        \* no token in Redis

\* The access token of an answer that has none: the empty string.
Blank == 0

Tokens == 1..MaxTokens

Times == 0..MaxClock

ASSUME PaymentAssumption ==
    /\ Kinds \subseteq {"transfer", "inquiry", "invalid"}
    /\ MaxAttempts \in Nat /\ MaxTokens \in Nat /\ MaxClock \in Nat /\ MaxFaults \in Nat
    /\ Timeout \in Nat \ {0} /\ Margin \in Nat /\ Fallback \in Nat \ {0} /\ Life \in Nat
    /\ TTLs \subseteq Int
    \* The settings fit the bank's tokens, and the margin the timeout.
    /\ 2 * Timeout <= Margin
    /\ Fallback + Margin <= Life
    /\ \A t \in TTLs : t <= Life
    /\ NoEntry \notin [token : Int, until : Int]

VARIABLES
    now,       \* the clock
    ttl,       \* the setting access_token_ttl
    cache,     \* the token in Redis and the end of its lifetime there
    minted,    \* how many tokens the bank has issued
    born,      \* when it issued each of them
    revoked,   \* tokens it no longer honours
    known,     \* external ids of the requests it has carried out
    request,   \* what each call is
    pc,        \* how far it has got
    token,     \* the token it uses
    since,     \* when the HTTP client took its request, if it has one
    copies,    \* copies of its request that may still arrive
    reply,     \* the bank's last reply that arrived in time
    carried,   \* how often the bank carried it out
    tries,     \* history: copies sent in all
    answer,    \* what the call answered
    faults     \* how often something failed

bank == <<minted, born, revoked>>
wire == <<copies, reply, carried, known>>
vars == <<now, ttl, cache, bank, request, pc, token, since, wire, tries, answer, faults>>

Init ==
    /\ now = 0
    /\ ttl \in TTLs
    /\ cache = NoEntry
    /\ minted = 0
    /\ born = [t \in Tokens |-> 0]
    /\ revoked = {}
    /\ known = {}
    /\ request \in [Calls -> Kinds]
    /\ pc = [c \in Calls |-> "start"]
    /\ token = [c \in Calls |-> Blank]
    /\ since = [c \in Calls |-> 0]
    /\ copies = [c \in Calls |-> 0]
    /\ reply = [c \in Calls |-> "none"]
    /\ carried = [c \in Calls |-> 0]
    /\ tries = [c \in Calls |-> 0]
    /\ answer = [c \in Calls |-> "none"]
    /\ faults = 0

-----------------------------------------------------------------------------
Goto(c, l) == pc' = [pc EXCEPT ![c] = l] /\ UNCHANGED answer

Answer(c, a) ==
    /\ pc' = [pc EXCEPT ![c] = "done"]
    /\ answer' = [answer EXCEPT ![c] = a]
    /\ since' = [since EXCEPT ![c] = 0]

Fault == faults < MaxFaults /\ faults' = faults + 1

\* What an error of the bank becomes: the client reads the code in its body.
Errors == {"refused", "unauthorized", "conflict", "unavailable", "internal"}

\* The context of the client's request has not ended.
InTime(c) == now <= since[c] + Timeout

(***************************************************************************)
(* The token.                                                              *)
(***************************************************************************)
\* Mutant: nothing is left, and nothing put in its place.
NoFallbackTTL == ttl - Margin

\* Mutant: the token is kept for as long as the setting says.
WholeTTL == IF ttl <= 0 THEN Fallback ELSE ttl

CacheTTL == IF ttl - Margin <= 0 THEN Fallback ELSE ttl - Margin

Cached == cache # NoEntry /\ now < cache.until

\* The request is signed with token t and handed to the HTTP client.  No copy
\* is sent when the breaker is open.
Post(c, t) ==
    /\ token' = [token EXCEPT ![c] = t]
    /\ since' = [since EXCEPT ![c] = now]
    /\ \E k \in 0..MaxAttempts :
          /\ copies' = [copies EXCEPT ![c] = k]
          /\ tries' = [tries EXCEPT ![c] = k]
    /\ Goto(c, "posted")

Validate(c) ==
    /\ pc[c] = "start" /\ request[c] = "invalid"
    /\ Answer(c, "invalid")
    /\ UNCHANGED <<now, ttl, cache, bank, request, token, wire, tries, faults>>

\* An error of Redis other than a miss ends the call.
TakeToken(c) ==
    /\ pc[c] = "start" /\ request[c] # "invalid"
    /\ \/ /\ Fault
          /\ Answer(c, "internal")
          /\ UNCHANGED <<token, copies, tries>>
       \/ /\ Cached
          /\ Post(c, cache.token)
          /\ UNCHANGED faults
       \/ /\ ~Cached
          /\ since' = [since EXCEPT ![c] = now]
          /\ Goto(c, "fetching")
          /\ UNCHANGED <<token, copies, tries, faults>>
    /\ UNCHANGED <<now, ttl, cache, bank, request, reply, carried, known>>

\* The bank issues a token, or answers without one.
Issue(c) ==
    /\ pc[c] = "fetching" /\ InTime(c)
    /\ \/ /\ minted < MaxTokens
          /\ minted' = minted + 1
          /\ born' = [born EXCEPT ![minted + 1] = now]
          /\ token' = [token EXCEPT ![c] = minted + 1]
          /\ UNCHANGED faults
       \/ /\ Fault
          /\ token' = [token EXCEPT ![c] = Blank]
          /\ UNCHANGED <<minted, born>>
    /\ Goto(c, "issued")
    /\ UNCHANGED <<now, ttl, cache, revoked, request, since, wire, tries>>

\* The token is not looked at before it is stored; an error of SET is ignored.
StoreToken(c) ==
    /\ pc[c] = "issued"
    /\ \/ cache' = [token |-> token[c], until |-> now + CacheTTL] /\ UNCHANGED faults
       \/ Fault /\ UNCHANGED cache
    /\ Post(c, token[c])
    /\ UNCHANGED <<now, ttl, bank, request, reply, carried, known, answer>>

\* Everything that can go wrong with the request for a token ends the call;
\* an error of the token endpoint is mapped as any other, a conflict included.
FetchFails(c) ==
    /\ pc[c] \in {"fetching", "issued"}
    /\ \E e \in Errors : Answer(c, e)
    /\ UNCHANGED <<now, ttl, cache, bank, request, token, wire, tries, faults>>

-----------------------------------------------------------------------------
(***************************************************************************)
(* The request at the bank.                                                *)
(***************************************************************************)
Honoured(t) == t # Blank /\ t \notin revoked /\ now < born[t] + Life

\* Mutant: the transfer is identified as the inquiry is, by the account.
AccountAsID(c) == request[c]

\* One for all copies of a call's request.
ExternalID(c) == c

\* Only what arrives while the call waits, and in time, is heard.
Hear(c, r) == reply' = [reply EXCEPT ![c] = IF pc[c] = "posted" /\ InTime(c) THEN r ELSE @]

CarryOut(c) ==
    /\ ExternalID(c) \notin known
    /\ known' = known \cup {ExternalID(c)}
    /\ carried' = [carried EXCEPT ![c] = @ + 1]

\* "nodata" is a success without the account's data; "lost" is what a gateway
\* answers in place of the bank, which may have carried the request out.
Arrive(c) ==
    /\ copies[c] > 0
    /\ copies' = [copies EXCEPT ![c] = @ - 1]
    /\ \/ ~Honoured(token[c]) /\ Hear(c, "unauthorized") /\ UNCHANGED <<known, carried>>
       \/ Honoured(token[c]) /\ ExternalID(c) \in known /\ Hear(c, "conflict") /\ UNCHANGED <<known, carried>>
       \/ Honoured(token[c]) /\ ExternalID(c) \notin known /\ Hear(c, "refused") /\ UNCHANGED <<known, carried>>
       \/ Honoured(token[c]) /\ CarryOut(c) /\ \E r \in {"ok", "nodata", "lost"} : Hear(c, r)
       \/ Hear(c, "lost") /\ UNCHANGED <<known, carried>>
    /\ UNCHANGED <<now, ttl, cache, bank, request, pc, token, since, tries, answer, faults>>

\* Mutant: what a gateway answers counts as the bank's refusal.
MappedAsRefusal(r) == IF r = "lost" THEN "refused" ELSE r

Mapped(r) == IF r = "lost" THEN "unavailable" ELSE r

\* The HTTP client returns the last reply, or fails.  A success may be cut
\* off or unreadable, and so may an error.
Return(c) ==
    /\ pc[c] = "posted"
    /\ \/ reply[c] = "ok" /\ Answer(c, "ok")
       \/ reply[c] = "nodata" /\ Answer(c, IF request[c] = "inquiry" THEN "refused" ELSE "internal")
       \/ reply[c] \notin {"none", "ok", "nodata"} /\ Answer(c, Mapped(reply[c]))
       \/ reply[c] # "none" /\ Answer(c, "internal")
       \/ Answer(c, "unavailable")
    /\ reply' = [reply EXCEPT ![c] = "none"]
    /\ UNCHANGED <<now, ttl, cache, bank, request, token, copies, carried, known, tries, faults>>

-----------------------------------------------------------------------------
Revoke ==
    /\ Fault
    /\ \E t \in 1..minted : revoked' = revoked \cup {t}
    /\ UNCHANGED <<now, ttl, cache, minted, born, request, pc, token, since, wire, tries, answer>>

\* A token that came in time is read and stored in time.
Tick ==
    /\ now < MaxClock
    /\ \A c \in Calls : pc[c] = "issued" => now < since[c] + Timeout
    /\ now' = now + 1
    /\ UNCHANGED <<ttl, cache, bank, request, pc, token, since, wire, tries, answer, faults>>

Call(c) == Validate(c) \/ TakeToken(c) \/ Issue(c) \/ StoreToken(c) \/ FetchFails(c) \/ Return(c)

Terminated == (\A c \in Calls : pc[c] = "done") /\ UNCHANGED vars

Next == (\E c \in Calls : Call(c) \/ Arrive(c)) \/ Revoke \/ Tick \/ Terminated

Spec == Init /\ [][Next]_vars

-----------------------------------------------------------------------------
(***************************************************************************)
(* Properties.                                                             *)
(***************************************************************************)
Replies == {"ok", "nodata", "refused", "unauthorized", "conflict", "lost"}

\* Every variable has its type.
TypeOK ==
    /\ now \in Times
    /\ ttl \in TTLs
    /\ cache \in [token : Tokens \cup {Blank}, until : Nat \ {0}] \cup {NoEntry}
    /\ minted \in 0..MaxTokens
    /\ born \in [Tokens -> Times]
    /\ revoked \subseteq 1..minted
    /\ known \subseteq {ExternalID(c) : c \in Calls}
    /\ request \in [Calls -> Kinds]
    /\ pc \in [Calls -> {"start", "fetching", "issued", "posted", "done"}]
    /\ token \in [Calls -> 0..minted]
    /\ since \in [Calls -> Times]
    /\ copies \in [Calls -> 0..MaxAttempts]
    /\ reply \in [Calls -> {"none"} \cup Replies]
    /\ carried \in [Calls -> Nat]
    /\ tries \in [Calls -> 0..MaxAttempts]
    /\ answer \in [Calls -> {"none", "ok", "invalid"} \cup Errors]
    /\ faults \in 0..MaxFaults

\* A call is carried out at most once, however many copies of its request
\* arrive and when, and is told the truth about it: success, and a conflict
\* once its request was sent, mean that this call was carried out, not another.
\* (A conflict over the token says nothing: then nothing was sent.)
SuccessIsTrue ==
    \A c \in Calls :
        /\ carried[c] <= 1
        /\ answer[c] = "ok" => carried[c] = 1
        /\ answer[c] = "conflict" /\ tries[c] > 0 => carried[c] = 1

\* A caller who is refused outright has moved no money, unless the client sent
\* the request again and the refusal is the answer to another copy; after
\* "internal" and "unavailable" nothing is known.
RefusalIsTrue ==
    \A c \in Calls :
        request[c] = "transfer" /\ carried[c] > 0 /\ answer[c] \in {"invalid", "refused", "unauthorized"}
            => tries[c] > 1

\* A token from Redis lasts until the request arrives: the bank calls it
\* unauthorized only when it has revoked it or never issued it.  The minute
\* has to pay for two timeouts, that of the request for the token and that of
\* the request which uses it last.
TokenLastsTheCall ==
    \A c \in Calls : reply[c] = "unauthorized" => token[c] \in revoked \cup {Blank}
=============================================================================
