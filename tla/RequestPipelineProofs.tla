----------------------- MODULE RequestPipelineProofs -----------------------
(***************************************************************************)
(* The safety properties of RequestPipeline for any number of requests and *)
(* processes, any allowances, window and number of failures.  Whatever     *)
(* overlaps, an entry never holds more hits than were made in its window;  *)
(* and while nothing overlaps or fails it holds at least as many as were   *)
(* let through, and later windows have none.                               *)
(***************************************************************************)
EXTENDS RequestPipeline, TLAPS

\* An entry that is not in excess of what was counted, and ends in time.
Backed(e) == e.hits <= made[e.exp] /\ e.exp <= now + Window

Counts ==
    /\ entry # NoEntry => Backed(entry)
    /\ \A r \in Requests : seen[r] # NoEntry => Backed(seen[r])

\* Where a request is says what it has behind it.
FlowOf(r) ==
    /\ pc[r] = "counting" => Pending(r) /\ seen[r] # NoEntry
    /\ pc[r] = "bound" => Admitted(r)
    /\ res[r] = 429 => Pending(r) /\ seen[r] # NoEntry /\ ~Within(r)
    /\ pc[r] # "done" => res[r] = 0 /\ outcome[r] = "none"

Tells(r) ==
    /\ outcome[r] # "none" => Admitted(r)
    /\ Answered(r) => Honest(r)

Flow == \A r \in Requests : FlowOf(r) /\ Tells(r)

\* An entry that accounts for all that was let through.
Covers(e) == LetThrough(e.exp) <= e.hits /\ \A w \in Windows : w > e.exp => LetThrough(w) = 0

Serial ==
    disturbed \/
    /\ \A q, r \in Requests : Holds(q) /\ Holds(r) => q = r
    /\ entry # NoEntry => Covers(entry)
    /\ entry = NoEntry => \A w \in Windows : LetThrough(w) = 0
    /\ \A r \in Requests : Holds(r) =>
          Covers(seen[r]) /\ LetThrough(seen[r].exp) < seen[r].hits

Inv == TypeOK /\ Counts /\ Flow /\ Serial /\ OnlyRacesOvershoot

-----------------------------------------------------------------------------
LEMMA LimitsType ==
    ASSUME TypeOK, NEW r \in Requests
    PROVE  /\ Len(Limits(r)) \in 0..2
           /\ Pending(r) => Limiter(r) \in Limiters
           /\ AllowedBy(Limiter(r)) \in Nat
<1>1. kind[r].route \in Routes /\ passed[r] \in 0..2
  BY DEF TypeOK, Kind
<1>2. CASE kind[r].route = "probe"
  BY <1>1, <1>2, PipelineAssumption DEF Limits, Pending, Limiter, Limiters, AllowedBy
<1>3. CASE kind[r].route \in {"session", "signup"}
  BY <1>1, <1>3, PipelineAssumption DEF Limits, Pending, Limiter, Limiters, AllowedBy
<1>4. CASE kind[r].route \notin {"probe", "session", "signup"}
  BY <1>1, <1>4, PipelineAssumption DEF Limits, Pending, Limiter, Limiters, AllowedBy, Routes
<1> QED BY <1>2, <1>3, <1>4

\* What the kind of a request determines stays.
LEMMA SameRequest ==
    ASSUME NEW r \in Requests, kind' = kind
    PROVE  /\ Limits(r)' = Limits(r)
           /\ Protected(r)' = Protected(r) /\ Panics(r)' = Panics(r)
           /\ passed'[r] = passed[r] => /\ Pending(r)' = Pending(r)
                                        /\ Limiter(r)' = Limiter(r)
                                        /\ Admitted(r)' = Admitted(r)
BY DEF Limits, Protected, Panics, Ruled, Pending, Limiter, Admitted

\* The others notice nothing of the step of a request.
Same(q) == /\ pc'[q] = pc[q] /\ passed'[q] = passed[q] /\ seen'[q] = seen[q]
           /\ outcome'[q] = outcome[q] /\ res'[q] = res[q]

LEMMA Frame ==
    ASSUME Flow, NEW r \in Requests, kind' = kind,
           \A q \in Requests \ {r} : Same(q), FlowOf(r)', Tells(r)'
    PROVE  Flow'
<1> SUFFICES ASSUME NEW q \in Requests, q # r PROVE FlowOf(q)' /\ Tells(q)'
  BY DEF Flow
<1>1. Same(q) /\ FlowOf(q) /\ Tells(q)
  BY DEF Flow
<1>2. /\ Pending(q)' = Pending(q) /\ Limiter(q)' = Limiter(q)
      /\ Admitted(q)' = Admitted(q) /\ Panics(q)' = Panics(q)
  BY <1>1, SameRequest DEF Same
<1>3. Within(q)' = Within(q)
  BY <1>1, <1>2 DEF Same, Within, AllowedBy
<1>4. Honest(q)' = Honest(q)
  BY <1>1, <1>2 DEF Same, Honest
<1> QED BY <1>1, <1>2, <1>3, <1>4 DEF Same, FlowOf, Tells, Answered

LEMMA HitType ==
    ASSUME TypeOK, NEW e \in Entry \cup {NoEntry}
    PROVE  /\ Hit(e) \in Entry
           /\ Hit(e).hits \in Nat \ {0} /\ Hit(e).exp \in Windows
           /\ Hit(e) # NoEntry
<1>1. now \in Nat /\ now <= MaxClock /\ Window \in Nat \ {0} /\ MaxClock \in Nat
  BY PipelineAssumption DEF TypeOK
<1>2. now + Window \in Windows /\ 1 \in Nat \ {0}
  BY <1>1 DEF Windows
<1>3. CASE e = NoEntry \/ now >= e.exp
  BY <1>2, <1>3, PipelineAssumption DEF Hit, Entry, Windows
<1>4. CASE ~(e = NoEntry \/ now >= e.exp)
  <2>1. e.hits \in Nat \ {0} /\ e.exp \in Windows
    BY <1>4 DEF Entry
  <2> QED BY <2>1, <1>4, PipelineAssumption DEF Hit, Entry, Windows
<1> QED BY <1>3, <1>4

LEMMA InitInv == Init => Inv
<1> SUFFICES ASSUME Init PROVE Inv
  OBVIOUS
<1>1. TypeOK
  <2>1. \A r \in Requests : passed[r] <= Len(Limits(r))
    <3> SUFFICES ASSUME NEW r \in Requests PROVE passed[r] <= Len(Limits(r))
      OBVIOUS
    <3>1. kind[r].route = "probe" \/ kind[r].route \in {"session", "signup"}
          \/ kind[r].route \notin {"probe", "session", "signup"}
      OBVIOUS
    <3> QED BY <3>1 DEF Init, Limits
  <2>2. kind \in [Requests -> Kind]
    BY PipelineAssumption DEF Init
  <2>3. 0 \in 0..MaxClock /\ 0 \in 0..MaxFaults /\ 0 \in Statuses
    BY PipelineAssumption DEF Statuses
  <2>4. made \in [Windows -> Nat] /\ through \in [Limiters -> [Windows -> Nat]]
    BY DEF Init
  <2>5. /\ pc \in [Requests -> {"received", "counting", "bound", "done"}]
        /\ outcome \in [Requests -> {"none", "ok"} \cup Codes]
        /\ passed \in [Requests -> 0..2] /\ res \in [Requests -> Statuses]
        /\ seen \in [Requests -> Entry \cup {NoEntry}]
    BY <2>3 DEF Init
  <2> QED BY <2>1, <2>2, <2>3, <2>4, <2>5 DEF Init, TypeOK
<1>2. Counts /\ Flow
  BY PipelineAssumption DEF Init, Counts, Flow, FlowOf, Tells, Answered
<1>3. \A w \in Windows : through["default"][w] = 0 /\ through["auth"][w] = 0
  BY DEF Init, Limiters
<1>4. Serial /\ OnlyRacesOvershoot
  BY <1>3, PipelineAssumption DEF Init, Serial, OnlyRacesOvershoot, LetThrough, Holds
<1> QED BY <1>1, <1>2, <1>4 DEF Inv

-----------------------------------------------------------------------------
(***************************************************************************)
(* A hit is counted: one more in its window than the entry holds.          *)
(***************************************************************************)
LEMMA ReadHitsInv ==
    ASSUME Inv, NEW r \in Requests, ReadHits(r)
    PROVE  Inv'
<1> PICK e \in {entry, NoEntry} :
          /\ faults' = IF e = entry THEN faults ELSE faults + 1
          /\ faults' <= MaxFaults
          /\ seen' = [seen EXCEPT ![r] = Hit(e)]
          /\ made' = [made EXCEPT ![Hit(e).exp] = @ + 1]
          /\ disturbed' = (disturbed \/ e # entry \/ \E q \in Requests \ {r} : Holds(q))
  BY DEF ReadHits
<1> TypeOK
  BY DEF Inv
<1>h. /\ Hit(e) \in Entry /\ Hit(e) # NoEntry
      /\ Hit(e).hits \in Nat \ {0} /\ Hit(e).exp \in Windows
  BY HitType DEF TypeOK
<1>n. /\ now \in Nat /\ Window \in Nat \ {0} /\ entry \in Entry \cup {NoEntry}
      /\ made \in [Windows -> Nat] /\ seen \in [Requests -> Entry \cup {NoEntry}]
      /\ pc \in [Requests -> {"received", "counting", "bound", "done"}]
  BY PipelineAssumption DEF TypeOK
<1>u. /\ pc[r] = "received" /\ Pending(r)
      /\ pc' = [pc EXCEPT ![r] = "counting"]
      /\ UNCHANGED <<now, entry, kind, proc, passed, outcome, res, through>>
  BY DEF ReadHits, Goto, local
<1>1. TypeOK'
  <2>1. made' \in [Windows -> Nat]
    BY <1>h, <1>n
  <2>2. seen' \in [Requests -> Entry \cup {NoEntry}]
    BY <1>h, <1>n
  <2>3. faults' \in 0..MaxFaults
    BY PipelineAssumption DEF TypeOK
  <2>4. disturbed' \in BOOLEAN
    OBVIOUS
  <2> QED BY <2>1, <2>2, <2>3, <2>4, <1>u, <1>n DEF TypeOK, Limits
<1>2. Counts'
  <2>1. \A x \in Entry : Backed(x) => Backed(x)'
    BY <1>u, <1>n, <1>h DEF Backed, Entry
  <2>2. Backed(Hit(e))'
    <3>1. CASE e = NoEntry \/ now >= e.exp
      BY <3>1, <1>u, <1>n, <1>h DEF Backed, Hit
    <3>2. CASE ~(e = NoEntry \/ now >= e.exp)
      <4>1. Backed(e) /\ e \in Entry
        BY <3>2, <1>n DEF Inv, Counts
      <4> QED BY <3>2, <4>1, <1>u, <1>n, <1>h DEF Backed, Hit, Entry
    <3> QED BY <3>1, <3>2
  <2>3. (entry # NoEntry => Backed(entry))'
    BY <2>1, <1>u, <1>n DEF Inv, Counts
  <2>4. \A q \in Requests : (seen[q] # NoEntry => Backed(seen[q]))'
    <3> SUFFICES ASSUME NEW q \in Requests PROVE (seen[q] # NoEntry => Backed(seen[q]))'
      OBVIOUS
    <3>1. seen'[q] = IF q = r THEN Hit(e) ELSE seen[q]
      BY <1>n
    <3>2. (seen[q] # NoEntry => Backed(seen[q])) /\ seen[q] \in Entry \cup {NoEntry}
      BY <1>n DEF Inv, Counts
    <3>3. CASE q = r
      <4>1. Hit(e)' = Hit(e)
        BY <1>u DEF Hit
      <4> QED BY <3>1, <3>3, <4>1, <2>2 DEF Backed
    <3>4. CASE q # r
      BY <3>1, <3>2, <3>4, <2>1 DEF Backed
    <3> QED BY <3>3, <3>4
  <2> QED BY <2>3, <2>4 DEF Counts
<1>3. Flow'
  <2>1. \A q \in Requests \ {r} : Same(q)
    BY <1>u, <1>n DEF Same
  <2>2. FlowOf(r)' /\ Tells(r)'
    <3>1. /\ pc'[r] = "counting" /\ seen'[r] = Hit(e) /\ passed'[r] = passed[r]
          /\ res'[r] = 0 /\ outcome'[r] = "none"
      BY <1>u, <1>n DEF Inv, Flow, FlowOf
    <3>2. Pending(r)'
      BY <3>1, <1>u, SameRequest
    <3> QED BY <3>1, <3>2, <1>h DEF FlowOf, Tells, Answered
  <2> QED BY <2>1, <2>2, <1>u, Frame DEF Inv
<1>4. Serial'
  <2> SUFFICES ASSUME ~disturbed' PROVE Serial'
    BY DEF Serial
  <2>1. ~disturbed /\ e = entry /\ \A q \in Requests \ {r} : ~Holds(q)
    OBVIOUS
  <2>2. \A w \in Windows : LetThrough(w) \in Nat /\ LetThrough(w)' = LetThrough(w)
    BY <1>u DEF LetThrough, TypeOK, Limiters
  <2>3. \A q \in Requests : Holds(q)' => q = r
    BY <2>1, <1>u, <1>n DEF Holds
  <2>4. Covers(Hit(e)) /\ LetThrough(Hit(e).exp) < Hit(e).hits
    <3>1. CASE e = NoEntry
      BY <3>1, <2>1, <2>2, <1>h, <1>n DEF Inv, Serial, Covers, Hit
    <3>2. CASE e # NoEntry /\ now >= e.exp
      <4>1. Covers(e) /\ Hit(e).exp > e.exp /\ e.exp \in Windows
        BY <3>2, <2>1, <1>n DEF Inv, Serial, Hit, Entry, Windows
      <4> QED BY <4>1, <3>2, <2>2, <1>h, <1>n DEF Covers, Hit, Windows
    <3>3. CASE e # NoEntry /\ ~(now >= e.exp)
      <4>1. Covers(e) /\ e.exp \in Windows /\ e.hits \in Nat
        BY <3>3, <2>1, <1>n DEF Inv, Serial, Entry
      <4> QED BY <4>1, <3>3, <2>2, <1>h, <1>n DEF Covers, Hit
    <3> QED BY <3>1, <3>2, <3>3
  <2>5. \A x \in Entry : Covers(x) => Covers(x)'
    BY <2>2, <1>u DEF Covers, Entry
  <2>6. seen'[r] = Hit(e)
    BY <1>n
  <2>7. Covers(seen[r])' /\ (LetThrough(seen[r].exp) < seen[r].hits)'
    BY <2>4, <2>5, <2>6, <2>2, <1>h DEF Covers
  <2>8. (entry # NoEntry => Covers(entry))' /\ (entry = NoEntry => \A w \in Windows : LetThrough(w) = 0)'
    BY <2>1, <2>2, <2>5, <1>u, <1>n DEF Inv, Serial
  <2> QED BY <2>3, <2>7, <2>8 DEF Serial
<1>5. OnlyRacesOvershoot'
  BY <1>u DEF Inv, OnlyRacesOvershoot, LetThrough
<1> QED BY <1>1, <1>2, <1>3, <1>4, <1>5 DEF Inv

(***************************************************************************)
(* The entry is written and compared: only a hit within the allowance goes *)
(* on, and it is the newest of its window unless others came between.      *)
(***************************************************************************)
LEMMA WriteHitsInv ==
    ASSUME Inv, NEW r \in Requests, WriteHits(r)
    PROVE  Inv'
<1> TypeOK
  BY DEF Inv
<1>n. /\ now \in Nat /\ Window \in Nat /\ entry \in Entry \cup {NoEntry}
      /\ made \in [Windows -> Nat] /\ seen \in [Requests -> Entry \cup {NoEntry}]
      /\ pc \in [Requests -> {"received", "counting", "bound", "done"}]
      /\ passed \in [Requests -> 0..2] /\ res \in [Requests -> Statuses]
      /\ through \in [Limiters -> [Windows -> Nat]] /\ Windows \subseteq Nat
  BY PipelineAssumption DEF TypeOK, Windows
<1>p. /\ pc[r] = "counting" /\ Pending(r) /\ seen[r] \in Entry /\ seen[r] # NoEntry
      /\ Limiter(r) \in Limiters /\ AllowedBy(Limiter(r)) \in Nat
      /\ res[r] = 0 /\ outcome[r] = "none"
  BY <1>n, LimitsType DEF Inv, Flow, FlowOf, WriteHits
<1> PICK s \in Entry : s = seen[r]
  BY <1>p
<1> PICK l \in Limiters : l = Limiter(r)
  BY <1>p
<1> PICK w \in Windows : w = s.exp
  BY DEF Entry
<1>s. s.hits \in Nat /\ s # NoEntry /\ AllowedBy(l) \in Nat /\ (Within(r) <=> s.hits <= AllowedBy(l))
  BY <1>p DEF Entry, Within
<1>u. UNCHANGED <<now, kind, proc, outcome, made>>
  BY DEF WriteHits, local
<1>e. /\ entry' \in {entry, s} /\ (~disturbed' => ~disturbed /\ entry' = s)
      /\ disturbed' \in BOOLEAN /\ faults' \in 0..MaxFaults
  <2>1. \/ entry' = s /\ disturbed' = disturbed /\ faults' = faults
        \/ faults < MaxFaults /\ faults' = faults + 1 /\ disturbed' = TRUE /\ entry' = entry
    BY DEF WriteHits
  <2>2. faults \in 0..MaxFaults /\ disturbed \in BOOLEAN /\ MaxFaults \in Nat
    BY PipelineAssumption DEF TypeOK
  <2>3. CASE entry' = s /\ disturbed' = disturbed /\ faults' = faults
    BY <2>2, <2>3
  <2>4. CASE faults < MaxFaults /\ faults' = faults + 1 /\ disturbed' = TRUE /\ entry' = entry
    BY <2>2, <2>4
  <2> QED BY <2>1, <2>3, <2>4
<1>c. \/ /\ Within(r)
         /\ passed' = [passed EXCEPT ![r] = @ + 1]
         /\ through' = [through EXCEPT ![l][w] = @ + 1]
         /\ seen' = [seen EXCEPT ![r] = NoEntry]
         /\ pc' = [pc EXCEPT ![r] = "received"] /\ res' = res
      \/ /\ ~Within(r)
         /\ pc' = [pc EXCEPT ![r] = "done"] /\ res' = [res EXCEPT ![r] = 429]
         /\ UNCHANGED <<passed, through, seen>>
  BY DEF WriteHits, Answer, Goto
<1>1. TypeOK'
  <2>1. \A q \in Requests : Limits(q)' = Limits(q)
    BY <1>u, SameRequest
  <2>2. passed' \in [Requests -> 0..2] /\ \A q \in Requests : passed'[q] <= Len(Limits(q))
    <3>1. \A q \in Requests : passed[q] <= Len(Limits(q))
      BY DEF TypeOK
    <3>2. passed[r] \in 0..2 /\ passed[r] < Len(Limits(r)) /\ Len(Limits(r)) \in 0..2
      BY <1>n, <1>p, LimitsType DEF Pending
    <3>3. passed' = [passed EXCEPT ![r] = @ + 1] \/ passed' = passed
      BY <1>c
    <3> QED
      <4> SUFFICES ASSUME NEW q \in Requests
                   PROVE  passed'[q] \in 0..2 /\ passed'[q] <= Len(Limits(q))
        BY <1>n, <3>3
      <4>1. CASE q = r
        <5>1. passed'[r] = passed[r] + 1 \/ passed'[r] = passed[r]
          BY <3>3, <1>n
        <5>2. PICK n \in 0..2 : n = Len(Limits(r))
          BY <3>2
        <5>3. passed[r] < n
          BY <5>2, <3>2
        <5>4. passed'[r] \in 0..2 /\ passed'[r] <= n
          BY <5>1, <5>3, <3>2
        <5> QED BY <5>2, <5>4, <4>1
      <4>2. CASE q # r
        BY <4>2, <3>1, <3>3, <1>n
      <4> QED BY <4>1, <4>2
  <2>3. through' \in [Limiters -> [Windows -> Nat]]
    <3>1. CASE through' = through
      BY <3>1, <1>n
    <3>2. CASE through' = [through EXCEPT ![l][w] = @ + 1]
      <4>1. through[l] \in [Windows -> Nat] /\ through[l][w] + 1 \in Nat
        BY <1>n
      <4>2. [through[l] EXCEPT ![w] = @ + 1] \in [Windows -> Nat]
        BY <4>1
      <4>3. through' = [through EXCEPT ![l] = [through[l] EXCEPT ![w] = @ + 1]]
        BY <3>2
      <4> QED BY <4>2, <4>3, <1>n
    <3> QED BY <3>1, <3>2, <1>c
  <2>4. entry' \in Entry \cup {NoEntry} /\ seen' \in [Requests -> Entry \cup {NoEntry}]
    BY <1>c, <1>n, <1>e
  <2>5. /\ res' \in [Requests -> Statuses]
        /\ pc' \in [Requests -> {"received", "counting", "bound", "done"}]
    <3>1. 429 \in Statuses
      BY DEF Statuses
    <3> QED BY <3>1, <1>c, <1>n
  <2> QED BY <2>1, <2>2, <2>3, <2>4, <2>5, <1>u, <1>e DEF TypeOK
<1>2. Counts'
  <2>1. \A x \in Entry : Backed(x)' = Backed(x)
    BY <1>u DEF Backed
  <2>2. \A q \in Requests : seen'[q] \in {seen[q], NoEntry}
    BY <1>c, <1>n
  <2>3. \A q \in Requests : seen[q] # NoEntry => seen[q] \in Entry /\ Backed(seen[q])
    BY <1>n DEF Inv, Counts
  <2>4. entry' # NoEntry => entry' \in Entry /\ Backed(entry')
    BY <1>e, <1>n, <1>s, <2>3 DEF Inv, Counts
  <2>5. (entry # NoEntry => Backed(entry))'
    BY <2>4, <1>u DEF Backed
  <2>6. \A q \in Requests : (seen[q] # NoEntry => Backed(seen[q]))'
    BY <2>2, <2>3, <1>u DEF Backed
  <2> QED BY <2>5, <2>6 DEF Counts
<1>3. Flow'
  <2>1. \A q \in Requests \ {r} : Same(q)
    BY <1>c, <1>u, <1>n DEF Same
  <2>2. FlowOf(r)' /\ Tells(r)'
    <3>1. CASE Within(r)
      <4>1. /\ pc'[r] = "received" /\ res'[r] = 0 /\ outcome'[r] = "none"
        BY <3>1, <1>c, <1>u, <1>n, <1>p
      <4> QED BY <4>1 DEF FlowOf, Tells, Answered
    <3>2. CASE ~Within(r)
      <4>1. /\ pc'[r] = "done" /\ res'[r] = 429 /\ passed'[r] = passed[r] /\ seen'[r] = seen[r]
            /\ outcome'[r] = "none"
        BY <3>2, <1>c, <1>u, <1>n, <1>p
      <4>2. Pending(r)' /\ Limiter(r)' = Limiter(r)
        BY <4>1, <1>p, <1>u, SameRequest
      <4>3. Within(r)' = Within(r)
        BY <4>1, <4>2 DEF Within, AllowedBy
      <4>4. Honest(r)'
        BY <4>1 DEF Honest, Codes
      <4> QED BY <4>1, <4>2, <4>3, <4>4, <3>2, <1>p DEF FlowOf, Tells, Answered
    <3> QED BY <3>1, <3>2
  <2> QED BY <2>1, <2>2, <1>u, Frame DEF Inv
<1>4. ASSUME ~disturbed' PROVE Serial' /\ OnlyRacesOvershoot'
  <2>1. ~disturbed /\ entry' = s /\ \A q \in Requests \ {r} : ~Holds(q)
    BY <1>4, <1>e, <1>p DEF Inv, Serial, Holds
  <2>2. Covers(s) /\ LetThrough(w) < s.hits
    BY <2>1, <1>p DEF Inv, Serial, Holds
  <2>3. \A v \in Windows : LetThrough(v) \in Nat /\ through["auth"][v] \in Nat
                             /\ through["default"][v] \in Nat
    BY <1>n DEF LetThrough, Limiters
  <2>4. \A v \in Windows \ {w} : LetThrough(v)' = LetThrough(v) /\ through'["auth"][v] = through["auth"][v]
    BY <1>c, <1>n, <1>p DEF LetThrough, Limiters
  <2>5. ASSUME Within(r)
        PROVE  /\ LetThrough(w)' = LetThrough(w) + 1
               /\ l # "auth" => through'["auth"][w] = through["auth"][w]
               /\ through'["default"][w] \in Nat /\ through'["auth"][w] \in Nat
    <3>1. through' = [through EXCEPT ![l][w] = @ + 1]
      BY <2>5, <1>c
    <3>2. through["default"][w] \in Nat /\ through["auth"][w] \in Nat
      BY <2>3
    <3>3. CASE l = "auth"
      <4>1. through'["default"][w] = through["default"][w] /\ through'["auth"][w] = through["auth"][w] + 1
        BY <3>1, <3>3, <1>n DEF Limiters
      <4> QED BY <4>1, <3>2, <3>3 DEF LetThrough
    <3>4. CASE l = "default"
      <4>1. through'["auth"][w] = through["auth"][w] /\ through'["default"][w] = through["default"][w] + 1
        BY <3>1, <3>4, <1>n DEF Limiters
      <4> QED BY <4>1, <3>2, <3>4 DEF LetThrough
    <3> QED BY <3>3, <3>4 DEF Limiters
  <2>6. ASSUME ~Within(r) PROVE LetThrough(w)' = LetThrough(w) /\ through' = through
    BY <2>6, <1>c DEF LetThrough
  <2>7. \A q \in Requests : ~Holds(q)'
    BY <2>1, <1>c, <1>n DEF Holds
  <2>8. Serial'
    <3>1. LetThrough(w)' <= s.hits
      BY <2>2, <2>3, <2>5, <2>6, <1>s
    <3>2. \A v \in Windows : v > w => LetThrough(v)' = 0
      BY <2>2, <2>4, <1>n DEF Covers
    <3>3. Covers(s)'
      BY <3>1, <3>2 DEF Covers
    <3>4. Covers(entry)' /\ entry' # NoEntry
      BY <3>3, <2>1, <1>s DEF Covers
    <3> QED BY <3>4, <2>7 DEF Serial
  <2>9. OnlyRacesOvershoot'
    <3> SUFFICES ASSUME NEW v \in Windows
                 PROVE  /\ through'["auth"][v] <= AuthMax
                        /\ LetThrough(v)' <= DefaultMax \/ LetThrough(v)' <= AuthMax
      BY DEF OnlyRacesOvershoot
    <3>1. /\ through["auth"][v] <= AuthMax
          /\ LetThrough(v) <= DefaultMax \/ LetThrough(v) <= AuthMax
      BY <2>1 DEF Inv, OnlyRacesOvershoot
    <3>2. CASE v # w
      BY <3>1, <3>2, <2>4
    <3>3. CASE ~Within(r)
      BY <3>1, <3>3, <2>6 DEF LetThrough
    <3>4. CASE v = w /\ Within(r)
      <4>1. LetThrough(w)' <= AllowedBy(l)
        BY <3>4, <2>5, <2>2, <2>3, <1>s
      <4>2. CASE l = "auth"
        <5>1. LetThrough(w)' <= AuthMax /\ AuthMax \in Nat
          BY <4>1, <4>2, PipelineAssumption DEF AllowedBy
        <5>2. LetThrough(w)' = through'["default"][w] + through'["auth"][w]
          BY DEF LetThrough
        <5> QED BY <5>1, <5>2, <3>4, <2>5
      <4>3. CASE l # "auth"
        <5>1. LetThrough(w)' <= DefaultMax
          BY <4>1, <4>3 DEF AllowedBy
        <5> QED BY <5>1, <4>3, <3>1, <3>4, <2>5
      <4> QED BY <4>2, <4>3
    <3> QED BY <3>2, <3>3, <3>4
  <2> QED BY <2>8, <2>9
<1>5. Serial' /\ OnlyRacesOvershoot'
  BY <1>4 DEF Serial, OnlyRacesOvershoot
<1> QED BY <1>1, <1>2, <1>3, <1>5 DEF Inv

-----------------------------------------------------------------------------
(***************************************************************************)
(* What touches neither the entry nor the counters.                        *)
(***************************************************************************)
LEMMA Aside ==
    ASSUME Inv, UNCHANGED <<entry, made, through, disturbed, seen>>, now <= now', now' \in Nat,
           \A q \in Requests : Holds(q)' = Holds(q)
    PROVE  Counts' /\ Serial' /\ OnlyRacesOvershoot'
<1>1. /\ now \in Nat /\ Window \in Nat /\ Windows \subseteq Nat
      /\ entry \in Entry \cup {NoEntry} /\ seen \in [Requests -> Entry \cup {NoEntry}]
  BY PipelineAssumption DEF Inv, TypeOK, Windows
<1>2. Counts'
  <2>1. \A x \in Entry : Backed(x) => Backed(x)'
    <3> SUFFICES ASSUME NEW x \in Entry, Backed(x) PROVE Backed(x)'
      OBVIOUS
    <3>1. x.exp \in Nat
      BY <1>1 DEF Entry
    <3> QED BY <3>1, <1>1 DEF Backed
  <2>2. (entry # NoEntry => Backed(entry))'
    BY <2>1, <1>1 DEF Inv, Counts, Backed
  <2>3. \A q \in Requests : (seen[q] # NoEntry => Backed(seen[q]))'
    BY <2>1, <1>1 DEF Inv, Counts, Backed
  <2> QED BY <2>2, <2>3 DEF Counts
<1>3. Serial' /\ OnlyRacesOvershoot'
  BY DEF Inv, Serial, OnlyRacesOvershoot, Covers, LetThrough
<1> QED BY <1>2, <1>3

LEMMA HandleInv ==
    ASSUME Inv, NEW r \in Requests, Handle(r)
    PROVE  Inv'
<1> TypeOK
  BY DEF Inv
<1>u. /\ UNCHANGED <<now, entry, kind, proc, passed, seen, outcome, made, through, disturbed, faults>>
      /\ pc[r] = "received" /\ ~Pending(r) /\ outcome[r] = "none" /\ res[r] = 0
  BY DEF Handle, local, history, Inv, Flow, FlowOf
<1>a. passed[r] = Len(Limits(r))
  <2>1. passed[r] \in 0..2 /\ passed[r] <= Len(Limits(r)) /\ Len(Limits(r)) \in 0..2
    BY LimitsType DEF TypeOK
  <2> QED BY <2>1, <1>u DEF Pending
<1>c. \/ /\ pc' = [pc EXCEPT ![r] = "done"]
         /\ \E s \in {200, 400, 401, 404, 500} :
               /\ res' = [res EXCEPT ![r] = s]
               /\ s = 200 => kind[r].route = "probe"
               /\ s = 500 => Panics(r)
      \/ /\ pc' = [pc EXCEPT ![r] = "bound"] /\ res' = res
         /\ Authenticated(r) /\ kind[r].input = "good" /\ ~Panics(r)
  <2>1. CASE kind[r].route = "probe"
    BY <2>1 DEF Handle, Answer, Goto
  <2>2. CASE kind[r].route = "nowhere"
    BY <2>2 DEF Handle, Answer, Goto
  <2>3. CASE kind[r].route \notin {"probe", "nowhere"} /\ ~Authenticated(r)
    <3>1. Answer(r, 401)
      BY <2>3 DEF Handle
    <3> QED BY <3>1, <2>3 DEF Answer, Goto
  <2>4. CASE kind[r].route \notin {"probe", "nowhere"} /\ Authenticated(r)
    <3>1. Bind(r)
      BY <2>4 DEF Handle
    <3> QED BY <3>1, <2>4 DEF Bind, Recover, Answer, Goto
  <2> QED BY <2>1, <2>2, <2>3, <2>4
<1>n. /\ pc \in [Requests -> {"received", "counting", "bound", "done"}] /\ now \in Nat
      /\ res \in [Requests -> Statuses]
  BY PipelineAssumption DEF TypeOK
<1>1. TypeOK'
  <2>1. pc' \in [Requests -> {"received", "counting", "bound", "done"}] /\ res' \in [Requests -> Statuses]
    BY <1>c, <1>n DEF Statuses
  <2>2. \A q \in Requests : Limits(q)' = Limits(q)
    BY <1>u, SameRequest
  <2> QED BY <2>1, <2>2, <1>u DEF TypeOK
<1>2. \A q \in Requests : Holds(q)' = Holds(q)
  BY <1>c, <1>n, <1>u DEF Holds
<1>3. Flow'
  <2>1. \A q \in Requests \ {r} : Same(q)
    BY <1>c, <1>u, <1>n DEF Same
  <2>2. Pending(r)' = FALSE /\ Admitted(r)' = Admitted(r) /\ Panics(r)' = Panics(r)
    BY <1>u, SameRequest
  <2>3. FlowOf(r)' /\ Tells(r)'
    <3>1. CASE pc'[r] = "done"
      <4>1. /\ res'[r] \in {200, 400, 401, 404, 500} /\ outcome'[r] = "none"
            /\ res'[r] = 200 => kind[r].route = "probe"
            /\ res'[r] = 500 => Panics(r)
        BY <3>1, <1>c, <1>u, <1>n
      <4>2. Honest(r)'
        BY <4>1, <2>2, <1>u DEF Honest, Codes
      <4> QED BY <3>1, <4>1, <4>2, <2>2 DEF FlowOf, Tells, Answered
    <3>2. CASE pc'[r] # "done"
      <4>1. /\ pc'[r] = "bound" /\ res'[r] = 0 /\ outcome'[r] = "none"
            /\ Authenticated(r) /\ kind[r].input = "good" /\ ~Panics(r)
        BY <3>2, <1>c, <1>u, <1>n
      <4>2. Admitted(r)
        BY <4>1, <1>a DEF Admitted, Authenticated
      <4> QED BY <4>1, <4>2, <2>2 DEF FlowOf, Tells, Answered
    <3> QED BY <3>1, <3>2
  <2> QED BY <2>1, <2>3, <1>u, Frame DEF Inv
<1> QED BY <1>1, <1>2, <1>3, <1>u, <1>n, Aside DEF Inv

LEMMA RespondInv ==
    ASSUME Inv, NEW r \in Requests, Respond(r)
    PROVE  Inv'
<1> TypeOK
  BY DEF Inv
<1> PICK o \in Outcomes :
          /\ outcome' = [outcome EXCEPT ![r] = o]
          /\ pc' = [pc EXCEPT ![r] = "done"]
          /\ res' = [res EXCEPT ![r] = IF o = "ok" THEN Success(kind[r].route) ELSE Status(o)]
  BY DEF Respond, Answer, Goto
<1>u. /\ UNCHANGED <<now, entry, kind, proc, passed, seen, made, through, disturbed, faults>>
      /\ pc[r] = "bound"
  BY DEF Respond, local, history
<1>n. /\ pc \in [Requests -> {"received", "counting", "bound", "done"}] /\ now \in Nat
      /\ res \in [Requests -> Statuses] /\ outcome \in [Requests -> {"none", "ok"} \cup Codes]
      /\ o \in {"ok"} \cup Codes
  BY PipelineAssumption DEF TypeOK
<1>s. \/ o = "ok" /\ res'[r] \in {200, 201, 204}
      \/ o \in Codes /\ o # "ok" /\ res'[r] \in Statuses \ {0, 200, 201, 204, 429}
  BY <1>n DEF Success, Status, Codes, Statuses
<1>1. TypeOK'
  <2>1. /\ pc' \in [Requests -> {"received", "counting", "bound", "done"}]
        /\ outcome' \in [Requests -> {"none", "ok"} \cup Codes]
    BY <1>n
  <2>2. res' \in [Requests -> Statuses]
    <3>1. res'[r] \in Statuses
      BY <1>s DEF Statuses
    <3> QED BY <3>1, <1>n
  <2>3. \A q \in Requests : Limits(q)' = Limits(q)
    BY <1>u, SameRequest
  <2> QED BY <2>1, <2>2, <2>3, <1>u DEF TypeOK
<1>2. \A q \in Requests : Holds(q)' = Holds(q)
  BY <1>n, <1>u DEF Holds
<1>3. Flow'
  <2>1. \A q \in Requests \ {r} : Same(q)
    BY <1>u, <1>n DEF Same
  <2>2. Pending(r)' = Pending(r) /\ Admitted(r)' = Admitted(r) /\ Panics(r)' = Panics(r)
    BY <1>u, SameRequest
  <2>3. FlowOf(r) /\ pc'[r] = "done" /\ outcome'[r] = o
    BY <1>n DEF Inv, Flow
  <2>4. FlowOf(r)' /\ Tells(r)'
    <3>1. Admitted(r)
      BY <2>3, <1>u DEF FlowOf
    <3>2. res'[r] # 429
      BY <1>s
    <3>3. FlowOf(r)'
      BY <3>2, <2>3 DEF FlowOf
    <3>4. Tells(r)'
      <4>1. Honest(r)'
        BY <2>3, <1>s DEF Honest, Codes
      <4> QED BY <3>1, <4>1, <2>2, <2>3 DEF Tells
    <3> QED BY <3>3, <3>4
  <2> QED BY <2>1, <2>4, <1>u, Frame DEF Inv
<1> QED BY <1>1, <1>2, <1>3, <1>u, <1>n, Aside DEF Inv

LEMMA TickInv ==
    ASSUME Inv, Tick
    PROVE  Inv'
<1>1. /\ now \in Nat /\ now' = now + 1 /\ now' \in 0..MaxClock
      /\ UNCHANGED <<entry, kind, proc, pc, passed, seen, outcome, res, made, through, disturbed, faults>>
  BY PipelineAssumption DEF Tick, Inv, TypeOK, local, history
<1>2. TypeOK'
  BY <1>1 DEF Inv, TypeOK, Limits
<1>3. \A q \in Requests : Holds(q)' = Holds(q)
  BY <1>1 DEF Holds
<1>4. Flow'
  BY <1>1 DEF Inv, Flow, FlowOf, Tells, Answered, Admitted, Honest,
             Pending, Limits, Limiter, Within, Protected, Panics, Ruled
<1>5. now <= now' /\ now' \in Nat
  BY <1>1
<1> QED BY <1>1, <1>2, <1>3, <1>4, <1>5, Aside DEF Inv

LEMMA NextInv == Inv /\ [Next]_vars => Inv'
<1> SUFFICES ASSUME Inv, [Next]_vars PROVE Inv'
  OBVIOUS
<1>1. CASE UNCHANGED vars
  <2>1. UNCHANGED <<now, entry, kind, proc, pc, passed, seen, outcome, res, made, through, disturbed, faults>>
    BY <1>1 DEF vars, local, history
  <2>2. TypeOK' /\ Flow'
    BY <2>1 DEF Inv, TypeOK, Flow, FlowOf, Tells, Answered, Admitted, Honest,
                Pending, Limits, Limiter, Within, Protected, Panics, Ruled
  <2>3. now' \in Nat /\ now <= now' /\ \A q \in Requests : Holds(q)' = Holds(q)
    BY <2>1, PipelineAssumption DEF Inv, TypeOK, Holds
  <2> QED BY <2>1, <2>2, <2>3, Aside DEF Inv
<1>2. CASE \E r \in Requests : Serve(r)
  BY <1>2, ReadHitsInv, WriteHitsInv, HandleInv, RespondInv DEF Serve
<1>3. CASE Tick
  BY <1>3, TickInv
<1> QED BY <1>1, <1>2, <1>3 DEF Next, Terminated

-----------------------------------------------------------------------------
\* The invariant holds in every reachable state.
THEOREM Inductive == Spec => []Inv
<1> QED BY InitInv, NextInv, PTL DEF Spec

\* RequestPipeline is type correct, and no request passes a limiter twice.
THEOREM TypeCorrect == Spec => []TypeOK
<1>1. Inv => TypeOK
  BY DEF Inv
<1> QED BY <1>1, Inductive, PTL

\* While nothing overlaps and Redis answers, the two limiters keep to their
\* allowances although they count in one entry.
THEOREM LimitsHold == Spec => []OnlyRacesOvershoot
<1>1. Inv => OnlyRacesOvershoot
  BY DEF Inv
<1> QED BY <1>1, Inductive, PTL

\* Nobody is refused too early, whatever overlaps and fails.
THEOREM NoEarlyRefusal == Spec => []RefusalDeserved
<1>1. Inv => RefusalDeserved
  <2> SUFFICES ASSUME Inv, NEW r \in Requests, res[r] = 429
               PROVE  /\ Pending(r)
                      /\ made[seen[r].exp] > AllowedBy(Limiter(r))
                      /\ seen[r].exp <= now + Window
    BY DEF RefusalDeserved
  <2>1. Pending(r) /\ seen[r] \in Entry /\ ~Within(r) /\ Backed(seen[r])
    BY DEF Inv, Flow, FlowOf, Counts, TypeOK
  <2>2. /\ AllowedBy(Limiter(r)) \in Nat /\ seen[r].hits \in Nat
        /\ made[seen[r].exp] \in Nat
    BY <2>1, LimitsType DEF Inv, TypeOK, Entry
  <2> QED BY <2>1, <2>2 DEF Within, Backed
<1> QED BY <1>1, Inductive, PTL

\* What the client is told is what happened.
THEOREM HonestAnswers == Spec => []AnswerTellsOutcome
<1>1. Inv => AnswerTellsOutcome
  BY DEF Inv, Flow, Tells, AnswerTellsOutcome
<1> QED BY <1>1, Inductive, PTL
=============================================================================
