--------------------------- MODULE PaymentsProofs ---------------------------
(***************************************************************************)
(* The safety properties of Payments for any number of calls, copies and   *)
(* tokens, and any settings that fit together as PaymentAssumption says.   *)
(* A token is stored within a timeout of its issue and handed out for less *)
(* than CacheTTL after that; a request that carries it arrives within a    *)
(* second timeout or is not heard.  Each copy that was answered in         *)
(* vain leaves one fewer that can have been carried out.                   *)
(***************************************************************************)
EXTENDS Payments, TLAPS

Waiting == {"fetching", "issued", "posted"}

\* The age of the token a call holds.
Aged(c) ==
    /\ pc[c] \in Waiting => since[c] <= now
    /\ pc[c] = "issued" => InTime(c)
    /\ pc[c] = "issued" /\ token[c] # Blank => since[c] <= born[token[c]]
    /\ pc[c] = "posted" /\ token[c] # Blank => since[c] < born[token[c]] + Timeout + CacheTTL
    /\ reply[c] = "unauthorized" => token[c] \in revoked \cup {Blank}

\* What became of the copies of its request.
Accounted(c) ==
    /\ carried[c] = IF c \in known THEN 1 ELSE 0
    /\ carried[c] + copies[c] <= tries[c]
    /\ pc[c] \in {"start", "fetching", "issued"} => tries[c] = 0
    /\ pc[c] # "done" => answer[c] = "none"
    /\ reply[c] \in {"ok", "conflict"} => carried[c] = 1
    /\ answer[c] = "ok" => carried[c] = 1
    /\ answer[c] = "conflict" => carried[c] = 1 \/ tries[c] = 0
    /\ reply[c] \in {"refused", "unauthorized"} => carried[c] + copies[c] < tries[c]
    /\ request[c] = "transfer" /\ answer[c] \in {"invalid", "refused", "unauthorized"} =>
          carried[c] + copies[c] < tries[c] \/ tries[c] = 0

Stored ==
    cache # NoEntry =>
        /\ cache.token \in 0..minted
        /\ cache.token # Blank => cache.until <= born[cache.token] + Timeout + CacheTTL

Inv == TypeOK /\ Stored /\ \A c \in Calls : Aged(c) /\ Accounted(c)

-----------------------------------------------------------------------------
LEMMA CacheTTLType ==
    ASSUME ttl \in TTLs
    PROVE  CacheTTL \in Nat \ {0} /\ CacheTTL <= Life - Margin
BY PaymentAssumption DEF CacheTTL

\* A call that does nothing notices nothing.
Same(d) ==
    /\ pc'[d] = pc[d] /\ token'[d] = token[d] /\ since'[d] = since[d] /\ reply'[d] = reply[d]
    /\ copies'[d] = copies[d] /\ carried'[d] = carried[d] /\ tries'[d] = tries[d] /\ answer'[d] = answer[d]

LEMMA Frame ==
    ASSUME Inv, NEW d \in Calls, Same(d), UNCHANGED <<now, ttl, request>>,
           \A t \in 1..minted : born'[t] = born[t],
           revoked \subseteq revoked', d \in known' <=> d \in known
    PROVE  Aged(d)' /\ Accounted(d)'
<1>1. Aged(d) /\ Accounted(d) /\ token[d] \in 0..minted /\ minted \in Nat
  BY DEF Inv, TypeOK
<1>2. token[d] # Blank => born'[token[d]] = born[token[d]]
  BY <1>1 DEF Blank
<1>3. CacheTTL' = CacheTTL
  BY DEF CacheTTL
<1>4. Aged(d)'
  BY <1>1, <1>2, <1>3 DEF Same, Aged, InTime
<1>5. Accounted(d)'
  BY <1>1 DEF Same, Accounted
<1> QED BY <1>4, <1>5

\* What the type invariant says of one call.
LEMMA Types ==
    ASSUME TypeOK, NEW c \in Calls
    PROVE  /\ now \in Nat /\ minted \in Nat /\ MaxAttempts \in Nat /\ Timeout \in Nat /\ Life \in Nat
           /\ token[c] \in 0..minted /\ since[c] \in Nat /\ copies[c] \in 0..MaxAttempts
           /\ tries[c] \in 0..MaxAttempts /\ carried[c] \in Nat
           /\ CacheTTL \in Nat \ {0} /\ CacheTTL <= Life - Margin /\ Margin \in Nat /\ 2 * Timeout <= Margin
           /\ \A t \in 1..minted : t \in Tokens /\ born[t] \in Nat
BY PaymentAssumption, CacheTTLType DEF TypeOK, Times, Tokens

LEMMA InitInv == Init => Inv
<1> SUFFICES ASSUME Init PROVE Inv
  OBVIOUS
<1>1. TypeOK
  BY PaymentAssumption DEF Init, TypeOK, Times, Tokens, Blank
<1>2. Stored /\ \A c \in Calls : Aged(c) /\ Accounted(c)
  BY DEF Init, Stored, Aged, Accounted, Waiting, Blank
<1> QED BY <1>1, <1>2 DEF Inv

-----------------------------------------------------------------------------
LEMMA ValidateInv ==
    ASSUME Inv, NEW c \in Calls, Validate(c)
    PROVE  Inv'
<1>1. TypeOK'
  BY PaymentAssumption DEF Inv, TypeOK, Validate, Answer, bank, wire, Times
<1>2. Stored'
  BY DEF Inv, Stored, Validate, bank, CacheTTL
<1>3. \A d \in Calls \ {c} : Aged(d)' /\ Accounted(d)'
  BY Frame DEF Inv, TypeOK, Validate, Answer, bank, wire, Same
<1>4. Aged(c)' /\ Accounted(c)'
  <2>1. /\ pc'[c] = "done" /\ answer'[c] = "invalid" /\ UNCHANGED <<known, token, carried, copies, tries, reply, revoked>>
        /\ tries[c] = 0
    BY DEF Inv, TypeOK, Validate, Answer, bank, wire, Accounted
  <2> QED BY <2>1 DEF Inv, Aged, Accounted, Waiting
<1> QED BY <1>1, <1>2, <1>3, <1>4 DEF Inv

(***************************************************************************)
(* A posted request: its token is young enough.                            *)
(***************************************************************************)
LEMMA PostLocal ==
    ASSUME Inv, NEW c \in Calls, NEW t \in 0..minted, Post(c, t), pc[c] \in {"start", "issued"},
           UNCHANGED <<now, ttl, bank, request, reply, carried, known>>,
           t # Blank => now < born[t] + Timeout + CacheTTL
    PROVE  /\ Aged(c)' /\ Accounted(c)'
           /\ \A d \in Calls \ {c} : Aged(d)' /\ Accounted(d)'
<1> PICK k \in 0..MaxAttempts :
          /\ copies' = [copies EXCEPT ![c] = k]
          /\ tries' = [tries EXCEPT ![c] = k]
  BY DEF Post
<1>1. /\ token'[c] = t /\ since'[c] = now /\ copies'[c] = k /\ tries'[c] = k
      /\ pc'[c] = "posted" /\ answer' = answer
  BY DEF Post, Goto, Inv, TypeOK
<1>2. Aged(c) /\ Accounted(c) /\ k \in Nat /\ now \in Nat /\ Timeout \in Nat /\ copies[c] \in Nat /\ carried[c] \in Nat
  BY Types DEF Inv
<1>3. tries[c] = 0 /\ carried[c] = 0 /\ reply[c] = reply'[c] /\ c \notin known
  BY <1>2 DEF Accounted
<1>4. reply[c] \notin {"ok", "conflict", "refused", "unauthorized"}
  BY <1>2, <1>3 DEF Accounted
<1>5. CacheTTL' = CacheTTL
  BY DEF CacheTTL
<1>6. Aged(c)'
  BY <1>1, <1>2, <1>3, <1>4, <1>5 DEF Aged, Waiting, bank
<1>7. Accounted(c)'
  BY <1>1, <1>2, <1>3, <1>4 DEF Accounted
<1>8. \A d \in Calls \ {c} : Aged(d)' /\ Accounted(d)'
  <2> SUFFICES ASSUME NEW d \in Calls, d # c PROVE Aged(d)' /\ Accounted(d)'
    OBVIOUS
  <2>1. Same(d)
    BY DEF Post, Goto, Inv, TypeOK, Same
  <2> QED BY <2>1, Frame DEF bank
<1> QED BY <1>6, <1>7, <1>8

LEMMA PostType ==
    ASSUME TypeOK, NEW c \in Calls, NEW t \in 0..minted, Post(c, t)
    PROVE  /\ pc' \in [Calls -> {"start", "fetching", "issued", "posted", "done"}]
           /\ token' \in [Calls -> 0..minted] /\ since' \in [Calls -> Times]
           /\ copies' \in [Calls -> 0..MaxAttempts] /\ tries' \in [Calls -> 0..MaxAttempts]
           /\ answer' = answer
BY DEF TypeOK, Post, Goto

LEMMA TakeTokenInv ==
    ASSUME Inv, NEW c \in Calls, TakeToken(c)
    PROVE  Inv'
<1> TypeOK
  BY DEF Inv
<1>u. UNCHANGED <<now, ttl, cache, minted, born, revoked, request, reply, carried, known>> /\ pc[c] = "start"
  BY DEF TakeToken, bank
<1>2. Stored'
  BY <1>u DEF Inv, Stored, CacheTTL
<1>a. Aged(c) /\ Accounted(c) /\ now \in Nat /\ Timeout \in Nat
  BY Types DEF Inv
<1>3. CASE Fault /\ Answer(c, "internal") /\ UNCHANGED <<token, copies, tries>>
  <2>1. TypeOK'
    BY <1>3, <1>u, PaymentAssumption DEF TypeOK, Fault, Answer, Times, Errors
  <2>2. \A d \in Calls \ {c} : Same(d)
    BY <1>3, <1>u DEF TypeOK, Answer, Same
  <2>3. pc'[c] = "done" /\ answer'[c] = "internal"
    BY <1>3 DEF TypeOK, Answer
  <2>4. Aged(c)' /\ Accounted(c)'
    BY <2>3, <1>3, <1>u, <1>a DEF Aged, Accounted, Waiting
  <2> QED BY <2>1, <2>2, <2>4, <1>2, <1>u, Frame DEF Inv
<1>4. CASE Cached /\ Post(c, cache.token) /\ UNCHANGED faults
  <2>1. /\ cache # NoEntry /\ now < cache.until /\ cache.token \in 0..minted /\ cache.until \in Nat
        /\ cache.token # Blank => cache.until <= born[cache.token] + Timeout + CacheTTL
    BY <1>4 DEF Inv, Cached, Stored, TypeOK
  <2> PICK t \in 0..minted : t = cache.token
    BY <2>1
  <2>2. t # Blank => now < born[t] + Timeout + CacheTTL
    <3>1. t # Blank => born[t] \in Nat /\ CacheTTL \in Nat
      BY Types DEF Blank
    <3> QED BY <3>1, <2>1, <1>a
  <2>3. Post(c, t)
    BY <1>4
  <2>4. TypeOK'
    BY <2>3, <1>4, <1>u, PostType DEF TypeOK
  <2>5. \A d \in Calls : Aged(d)' /\ Accounted(d)'
    BY <2>2, <2>3, <1>u, PostLocal DEF bank
  <2> QED BY <2>4, <2>5, <1>2 DEF Inv
<1>5. CASE /\ since' = [since EXCEPT ![c] = now] /\ Goto(c, "fetching")
           /\ UNCHANGED <<token, copies, tries, faults>>
  <2>1. TypeOK'
    BY <1>5, <1>u DEF TypeOK, Goto
  <2>2. \A d \in Calls \ {c} : Same(d)
    BY <1>5, <1>u DEF TypeOK, Goto, Same
  <2>3. pc'[c] = "fetching" /\ since'[c] = now /\ answer' = answer
    BY <1>5 DEF TypeOK, Goto
  <2>4. Aged(c)' /\ Accounted(c)'
    BY <2>3, <1>5, <1>u, <1>a DEF Aged, Accounted, Waiting
  <2> QED BY <2>1, <2>2, <2>4, <1>2, <1>u, Frame DEF Inv
<1> QED BY <1>3, <1>4, <1>5 DEF TakeToken

LEMMA IssueInv ==
    ASSUME Inv, NEW c \in Calls, Issue(c)
    PROVE  Inv'
<1> TypeOK
  BY DEF Inv
<1>u. /\ UNCHANGED <<now, ttl, cache, revoked, request, since, copies, reply, carried, known, tries, answer>>
      /\ pc[c] = "fetching" /\ pc' = [pc EXCEPT ![c] = "issued"] /\ InTime(c)
  BY DEF Issue, Goto, wire
<1>n. now \in Times /\ minted \in 0..MaxTokens /\ MaxTokens \in Nat /\ minted \in Nat /\ since[c] \in Nat /\ Timeout \in Nat
  BY Types, PaymentAssumption DEF TypeOK
<1> PICK t \in 0..minted' :
          /\ token' = [token EXCEPT ![c] = t]
          /\ minted' \in {minted, minted + 1} /\ minted' \in 0..MaxTokens
          /\ born' \in [Tokens -> Times] /\ \A s \in 1..minted : born'[s] = born[s]
          /\ t # Blank => born'[t] = now
          /\ faults' \in 0..MaxFaults
  <2>1. CASE /\ minted < MaxTokens /\ minted' = minted + 1 /\ born' = [born EXCEPT ![minted + 1] = now]
             /\ token' = [token EXCEPT ![c] = minted + 1] /\ UNCHANGED faults
    <3>1. minted + 1 \in 0..minted' /\ minted' \in 0..MaxTokens /\ minted + 1 \in Tokens
      BY <2>1, <1>n DEF Tokens
    <3>2. born \in [Tokens -> Times] /\ faults \in 0..MaxFaults
      BY DEF TypeOK
    <3>3. /\ born' \in [Tokens -> Times] /\ born'[minted + 1] = now
          /\ \A s \in 1..minted : born'[s] = born[s]
      BY <2>1, <3>1, <3>2, <1>n DEF Tokens
    <3> QED BY <2>1, <3>1, <3>2, <3>3
  <2>2. CASE Fault /\ token' = [token EXCEPT ![c] = Blank] /\ UNCHANGED <<minted, born>>
    <3>1. faults' \in 0..MaxFaults /\ born \in [Tokens -> Times]
      BY <2>2, PaymentAssumption DEF TypeOK, Fault
    <3>2. Blank \in 0..minted' /\ minted' \in {minted, minted + 1} /\ minted' \in 0..MaxTokens
      BY <2>2, <1>n DEF Blank
    <3>3. born' \in [Tokens -> Times] /\ \A s \in 1..minted : born'[s] = born[s]
      BY <2>2, <3>1
    <3> QED BY <2>2, <3>1, <3>2, <3>3
  <2> QED BY <2>1, <2>2 DEF Issue
<1>1. TypeOK'
  <2>1. 0..minted \subseteq 0..minted' /\ 1..minted \subseteq 1..minted'
    BY <1>n
  <2>2. token' \in [Calls -> 0..minted']
    BY <2>1 DEF TypeOK
  <2> QED BY <2>1, <2>2, <1>u DEF TypeOK
<1>2. Stored'
  <2>1. CASE cache # NoEntry
    <3>1. cache.token \in 0..minted /\ cache.token \in 0..minted'
      BY <2>1, <1>n DEF Inv, Stored
    <3>2. cache.token # Blank => born'[cache.token] = born[cache.token]
      BY <3>1, <1>n DEF Blank
    <3> QED BY <2>1, <3>1, <3>2, <1>u DEF Inv, Stored, CacheTTL
  <2> QED BY <2>1, <1>u DEF Stored
<1>3. \A d \in Calls \ {c} : Aged(d)' /\ Accounted(d)'
  <2>1. \A d \in Calls \ {c} : Same(d)
    BY <1>u DEF TypeOK, Same
  <2> QED BY <2>1, <1>u, Frame
<1>4. Aged(c)' /\ Accounted(c)'
  <2>1. Aged(c) /\ Accounted(c) /\ pc'[c] = "issued" /\ token'[c] = t
    BY <1>u DEF Inv, TypeOK
  <2>2. reply[c] # "unauthorized"
    BY <2>1, <1>u, Types DEF Accounted
  <2> QED BY <2>1, <2>2, <1>u DEF Aged, Accounted, Waiting, InTime
<1> QED BY <1>1, <1>2, <1>3, <1>4 DEF Inv

LEMMA StoreTokenInv ==
    ASSUME Inv, NEW c \in Calls, StoreToken(c)
    PROVE  Inv'
<1> TypeOK
  BY DEF Inv
<1>u. UNCHANGED <<now, ttl, minted, born, revoked, request, reply, carried, known, answer>> /\ pc[c] = "issued"
  BY DEF StoreToken, bank
<1> PICK t \in 0..minted : t = token[c]
  BY Types
<1>a. Aged(c) /\ now \in Nat /\ Timeout \in Nat /\ since[c] \in Nat /\ CacheTTL \in Nat \ {0}
      /\ \A s \in 1..minted : s \in Tokens /\ born[s] \in Nat
  BY Types DEF Inv
<1>b. t # Blank => now <= born[t] + Timeout /\ t \in 1..minted /\ born[t] \in Nat
  BY <1>a, <1>u DEF Aged, Waiting, Blank, InTime
<1>c. \/ cache' = [token |-> t, until |-> now + CacheTTL] /\ UNCHANGED faults
      \/ Fault /\ UNCHANGED cache
  BY DEF StoreToken
<1>p. Post(c, t)
  BY DEF StoreToken
<1>1. TypeOK'
  <2>1. t \in Tokens \cup {Blank} /\ now + CacheTTL \in Nat \ {0}
    BY <1>a, <1>b
  <2>2. cache' \in [token : Tokens \cup {Blank}, until : Nat \ {0}] \cup {NoEntry}
    BY <2>1, <1>c DEF TypeOK
  <2>3. faults' \in 0..MaxFaults
    BY <1>c, PaymentAssumption DEF TypeOK, Fault
  <2> QED BY <2>2, <2>3, <1>u, <1>p, PostType DEF TypeOK
<1>2. Stored'
  <2>1. CacheTTL' = CacheTTL
    BY <1>u DEF CacheTTL
  <2>2. CASE cache' = [token |-> t, until |-> now + CacheTTL]
    <3>1. cache'.token = t /\ cache'.until = now + CacheTTL
      BY <2>2
    <3>2. t # Blank => now + CacheTTL <= born[t] + Timeout + CacheTTL
      BY <1>a, <1>b
    <3> QED BY <3>1, <3>2, <2>1, <1>u DEF Stored
  <2>3. CASE cache' = cache
    BY <2>1, <2>3, <1>u DEF Inv, Stored
  <2> QED BY <2>2, <2>3, <1>c
<1>3. \A d \in Calls : Aged(d)' /\ Accounted(d)'
  <2>1. t # Blank => now < born[t] + Timeout + CacheTTL
    BY <1>a, <1>b
  <2> QED BY <2>1, <1>p, <1>u, PostLocal DEF bank
<1> QED BY <1>1, <1>2, <1>3 DEF Inv

LEMMA FetchFailsInv ==
    ASSUME Inv, NEW c \in Calls, FetchFails(c)
    PROVE  Inv'
<1> TypeOK
  BY DEF Inv
<1> PICK e \in Errors : Answer(c, e)
  BY DEF FetchFails
<1>u. /\ UNCHANGED <<now, ttl, cache, minted, born, revoked, request, token, copies, reply, carried, known, tries, faults>>
      /\ pc[c] \in {"fetching", "issued"}
  BY DEF FetchFails, bank, wire
<1>1. TypeOK'
  BY <1>u, PaymentAssumption DEF TypeOK, Answer, Times
<1>2. Stored'
  BY <1>u DEF Inv, Stored, CacheTTL
<1>3. \A d \in Calls \ {c} : Aged(d)' /\ Accounted(d)'
  BY <1>u, Frame DEF TypeOK, Answer, Same
<1>4. Aged(c)' /\ Accounted(c)'
  <2>1. Aged(c) /\ Accounted(c) /\ pc'[c] = "done" /\ answer'[c] = e /\ tries[c] = 0
    BY <1>u DEF Inv, TypeOK, Answer, Accounted
  <2> QED BY <2>1, <1>u DEF Aged, Accounted, Waiting, Errors
<1> QED BY <1>1, <1>2, <1>3, <1>4 DEF Inv

(***************************************************************************)
(* A copy arrives: it is carried out, or can no longer be.                 *)
(***************************************************************************)
LEMMA ArriveInv ==
    ASSUME Inv, NEW c \in Calls, Arrive(c)
    PROVE  Inv'
<1> TypeOK
  BY DEF Inv
<1>u. /\ UNCHANGED <<now, ttl, cache, minted, born, revoked, request, pc, token, since, tries, answer, faults>>
      /\ copies' = [copies EXCEPT ![c] = @ - 1] /\ copies[c] > 0
  BY DEF Arrive, bank
<1>a. Aged(c) /\ Accounted(c)
  BY DEF Inv
<1>n. /\ copies \in [Calls -> 0..MaxAttempts] /\ reply \in [Calls -> {"none"} \cup Replies]
      /\ carried \in [Calls -> Nat] /\ MaxAttempts \in Nat /\ tries[c] \in Nat /\ copies[c] \in Nat
      /\ carried[c] \in Nat
  BY PaymentAssumption, Types DEF TypeOK
<1> PICK r \in Replies :
          /\ Hear(c, r)
          /\ r = "unauthorized" => ~Honoured(token[c])
          /\ \/ /\ known' = known \cup {c} /\ c \notin known
                /\ carried' = [carried EXCEPT ![c] = @ + 1]
                /\ r \in {"ok", "nodata", "lost"}
             \/ /\ UNCHANGED <<known, carried>>
                /\ r \notin {"ok", "nodata"}
                /\ r = "conflict" => c \in known
  BY DEF Arrive, CarryOut, ExternalID, Replies
<1>h. reply' = [reply EXCEPT ![c] = IF pc[c] = "posted" /\ InTime(c) THEN r ELSE @]
  BY DEF Hear
<1>1. TypeOK'
  <2>1. copies' \in [Calls -> 0..MaxAttempts] /\ carried' \in [Calls -> Nat]
    BY <1>u, <1>n
  <2>2. known' \subseteq {ExternalID(d) : d \in Calls}
    BY DEF TypeOK, ExternalID
  <2>3. reply' \in [Calls -> {"none"} \cup Replies]
    BY <1>h, <1>n
  <2> QED BY <2>1, <2>2, <2>3, <1>u DEF TypeOK
<1>2. Stored'
  BY <1>u DEF Inv, Stored, CacheTTL
<1>3. \A d \in Calls \ {c} : Aged(d)' /\ Accounted(d)'
  <2> SUFFICES ASSUME NEW d \in Calls, d # c PROVE Aged(d)' /\ Accounted(d)'
    OBVIOUS
  <2>1. Same(d) /\ (d \in known' <=> d \in known)
    BY <1>u, <1>h, <1>n DEF Same
  <2> QED BY <2>1, <1>u, Frame
<1>4. Aged(c)'
  <2>1. pc[c] = "posted" /\ InTime(c) /\ r = "unauthorized" => token[c] \in revoked \cup {Blank}
    <3> SUFFICES ASSUME pc[c] = "posted", InTime(c), token[c] # Blank PROVE now < born[token[c]] + Life
      BY DEF Honoured
    <3>1. /\ now \in Nat /\ since[c] \in Nat /\ now <= since[c] + Timeout
          /\ since[c] < born[token[c]] + Timeout + CacheTTL /\ born[token[c]] \in Nat
      BY <1>a, Types DEF Aged, Waiting, Blank, InTime
    <3>2. /\ CacheTTL \in Nat /\ CacheTTL <= Life - Margin /\ 2 * Timeout <= Margin
          /\ Timeout \in Nat /\ Margin \in Nat /\ Life \in Nat
      BY Types
    <3> QED BY <3>1, <3>2
  <2>2. reply'[c] = IF pc[c] = "posted" /\ InTime(c) THEN r ELSE reply[c]
    BY <1>h, <1>n
  <2>3. CacheTTL' = CacheTTL
    BY <1>u DEF CacheTTL
  <2> QED BY <2>1, <2>2, <2>3, <1>a, <1>u DEF Aged, InTime
<1>5. Accounted(c)'
  <2>1. copies'[c] = copies[c] - 1 /\ reply'[c] = IF pc[c] = "posted" /\ InTime(c) THEN r ELSE reply[c]
    BY <1>u, <1>h, <1>n
  <2>2. CASE c \notin known /\ known' = known \cup {c} /\ carried'[c] = carried[c] + 1 /\ r \in {"ok", "nodata", "lost"}
    BY <2>1, <2>2, <1>a, <1>u, <1>n DEF Accounted
  <2>3. CASE /\ UNCHANGED <<known, carried>> /\ r \notin {"ok", "nodata"} /\ (r = "conflict" => c \in known)
    BY <2>1, <2>3, <1>a, <1>u, <1>n DEF Accounted
  <2> QED BY <2>2, <2>3, <1>n
<1> QED BY <1>1, <1>2, <1>3, <1>4, <1>5 DEF Inv

LEMMA ReturnInv ==
    ASSUME Inv, NEW c \in Calls, Return(c)
    PROVE  Inv'
<1> TypeOK
  BY DEF Inv
<1>u. /\ UNCHANGED <<now, ttl, cache, minted, born, revoked, request, token, copies, carried, known, tries, faults>>
      /\ pc[c] = "posted" /\ reply' = [reply EXCEPT ![c] = "none"]
  BY DEF Return, bank
<1>a. Aged(c) /\ Accounted(c) /\ reply[c] \in {"none"} \cup Replies
  BY DEF Inv, TypeOK
<1> PICK e \in {"ok"} \cup Errors :
          /\ Answer(c, e)
          /\ e \in {"ok", "conflict"} => reply[c] = e
          /\ request[c] = "transfer" /\ e \in {"refused", "unauthorized"} => reply[c] = e
  BY <1>a DEF Return, Mapped, Errors, Replies
<1>1. TypeOK'
  BY <1>u, PaymentAssumption DEF TypeOK, Answer, Times
<1>2. Stored'
  BY <1>u DEF Inv, Stored, CacheTTL
<1>3. \A d \in Calls \ {c} : Aged(d)' /\ Accounted(d)'
  BY <1>u, Frame DEF TypeOK, Answer, Same
<1>4. Aged(c)' /\ Accounted(c)'
  <2>1. pc'[c] = "done" /\ answer'[c] = e /\ reply'[c] = "none"
    BY <1>u DEF TypeOK, Answer
  <2> QED BY <2>1, <1>a, <1>u DEF Aged, Accounted, Waiting, Errors
<1> QED BY <1>1, <1>2, <1>3, <1>4 DEF Inv

LEMMA RevokeInv ==
    ASSUME Inv, Revoke
    PROVE  Inv'
<1>1. /\ UNCHANGED <<now, ttl, cache, minted, born, request, pc, token, since, copies, reply, carried, known, tries, answer>>
      /\ revoked \subseteq revoked' /\ revoked' \subseteq revoked \cup 1..minted
  BY DEF Revoke, wire
<1>2. TypeOK'
  BY <1>1, PaymentAssumption DEF Inv, TypeOK, Revoke, Fault
<1>3. Stored'
  BY <1>1 DEF Inv, Stored, CacheTTL
<1>4. \A d \in Calls : Aged(d)' /\ Accounted(d)'
  BY <1>1, Frame DEF Same
<1> QED BY <1>2, <1>3, <1>4 DEF Inv

LEMMA TickInv ==
    ASSUME Inv, Tick
    PROVE  Inv'
<1>1. /\ UNCHANGED <<ttl, cache, minted, born, revoked, request, pc, token, since, copies, reply, carried, known, tries, answer, faults>>
      /\ now' = now + 1 /\ now < MaxClock
      /\ \A c \in Calls : pc[c] = "issued" => now < since[c] + Timeout
  BY DEF Tick, bank, wire
<1>2. TypeOK'
  BY <1>1, PaymentAssumption DEF Inv, TypeOK, Times
<1>3. Stored'
  BY <1>1 DEF Inv, Stored, CacheTTL
<1>4. \A c \in Calls : Aged(c)' /\ Accounted(c)'
  <2> SUFFICES ASSUME NEW c \in Calls PROVE Aged(c)' /\ Accounted(c)'
    OBVIOUS
  <2>1. Aged(c) /\ Accounted(c) /\ now \in Nat /\ since[c] \in Nat /\ Timeout \in Nat
    BY Types DEF Inv
  <2>2. CacheTTL' = CacheTTL
    BY <1>1 DEF CacheTTL
  <2>3. Aged(c)'
    BY <2>1, <2>2, <1>1 DEF Aged, InTime
  <2>4. Accounted(c)'
    BY <2>1, <1>1 DEF Accounted
  <2> QED BY <2>3, <2>4
<1> QED BY <1>2, <1>3, <1>4 DEF Inv

LEMMA NextInv == Inv /\ [Next]_vars => Inv'
<1> SUFFICES ASSUME Inv, [Next]_vars PROVE Inv'
  OBVIOUS
<1>1. CASE UNCHANGED vars
  BY <1>1 DEF vars, bank, wire, Inv, TypeOK, Stored, Aged, Accounted, CacheTTL, InTime
<1>2. CASE \E c \in Calls : Call(c) \/ Arrive(c)
  BY <1>2, ValidateInv, TakeTokenInv, IssueInv, StoreTokenInv, FetchFailsInv, ArriveInv, ReturnInv DEF Call
<1> QED BY <1>1, <1>2, RevokeInv, TickInv DEF Next, Terminated

-----------------------------------------------------------------------------
\* The invariant holds in every reachable state.
THEOREM Inductive == Spec => []Inv
<1> QED BY InitInv, NextInv, PTL DEF Spec

\* Payments is type correct; in particular no token is stored without an end.
THEOREM TypeCorrect == Spec => []TypeOK
<1>1. Inv => TypeOK
  BY DEF Inv
<1> QED BY <1>1, Inductive, PTL

\* A call is carried out once at most; success, and a conflict about a request
\* that was sent, are told only of what was carried out.
THEOREM TrueSuccess == Spec => []SuccessIsTrue
<1>1. Inv => SuccessIsTrue
  <2> SUFFICES ASSUME Inv, NEW c \in Calls
               PROVE  /\ carried[c] <= 1
                      /\ answer[c] = "ok" => carried[c] = 1
                      /\ answer[c] = "conflict" /\ tries[c] > 0 => carried[c] = 1
    BY DEF SuccessIsTrue
  <2>1. Accounted(c) /\ tries[c] \in Nat
    BY Types DEF Inv
  <2> QED BY <2>1 DEF Accounted
<1> QED BY <1>1, Inductive, PTL

\* A refusal can be believed unless the request was repeated.
THEOREM TrueRefusal == Spec => []RefusalIsTrue
<1>1. Inv => RefusalIsTrue
  <2> SUFFICES ASSUME Inv, NEW c \in Calls, request[c] = "transfer", carried[c] > 0,
                      answer[c] \in {"invalid", "refused", "unauthorized"}
               PROVE  tries[c] > 1
    BY DEF RefusalIsTrue
  <2>1. Accounted(c) /\ carried[c] \in Nat /\ copies[c] \in Nat /\ tries[c] \in Nat
    BY Types DEF Inv
  <2> QED BY <2>1 DEF Accounted
<1> QED BY <1>1, Inductive, PTL

\* The margin pays for two timeouts: no cached token runs out on the way.
THEOREM TokenLasts == Spec => []TokenLastsTheCall
<1>1. Inv => TokenLastsTheCall
  BY DEF Inv, Aged, TokenLastsTheCall
<1> QED BY <1>1, Inductive, PTL
=============================================================================
