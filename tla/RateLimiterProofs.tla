------------------------- MODULE RateLimiterProofs -------------------------
(***************************************************************************)
(* Proofs about RateLimiter for any number of requests and addresses, any  *)
(* limit, window length and number of retries.                             *)
(***************************************************************************)
EXTENDS RateLimiter, FiniteSetTheorems, TLAPS

-----------------------------------------------------------------------------
(* A call that has started has an address, and one that has not has been   *)
(* counted nowhere; a call whose script was answered has been counted.     *)
Counted ==
  /\ \A c \in Requests : cmd[c].st # "idle" => from[c] \in Arrivals
  /\ \A c \in Requests : cmd[c].st = "idle" => count[c] = 0
  /\ \A c \in Requests : cmd[c].st \in {"answered", "returned"} => count[c] > 0

(* No call was counted in a window that has not begun, and in the current  *)
(* one the counter is past every number it gave out.                       *)
InWindow ==
  \A c \in Requests : count[c] > 0 =>
    /\ win[c] <= window[IP(c)]
    /\ win[c] = window[IP(c)] /\ counter[IP(c)] > 0 => count[c] <= counter[IP(c)]

(* No two calls hold the same number of the same window of an address.     *)
Distinct ==
  \A c, d \in Requests :
    count[c] > 0 /\ count[c] = count[d] /\ win[c] = win[d] /\ IP(c) = IP(d) => c = d

(* Redis holds no counter without a time to live: INCR and EXPIRE are one  *)
(* script, so no crash or lost reply of the caller comes between them.     *)
CounterHasTTL == \A i \in Hosts : counter[i] > 0 <=> left[i] > 0

(* The inductive invariant behind the bounds.                              *)
LimiterInv == TypeOK /\ Counted /\ InWindow /\ Distinct /\ CounterHasTTL

-----------------------------------------------------------------------------
(* remoteIP names an address: the peer's, or the entry it forwarded.       *)
LEMMA RemoteIPType ==
  ASSUME NEW r \in Arrivals
  PROVE  RemoteIP(r) \in Hosts
  BY DEF Arrivals, RemoteIP

(* A public peer is counted under its own address, whatever header it      *)
(* sends.                                                                  *)
LEMMA PublicPeer ==
  ASSUME NEW r, r.host \notin Private
  PROVE  RemoteIP(r) = r.host
  BY DEF RemoteIP, IsTrustedProxy

(* The states of the client loop are well typed, and a call that has       *)
(* started never becomes idle again.                                       *)
LEMMA CallTypes ==
  /\ NewCall \in CallType /\ NewCall.st = "idle"
  /\ Start \in CallType /\ Start.st = "sent"
  /\ \A c \in CallType : /\ Retry(c) \in CallType /\ Retry(c).st \in {"sent", "failed"}
                         /\ Refused(c) \in CallType /\ Refused(c).st = "failed"
                         /\ \A s \in CallStates : /\ [c EXCEPT !.st = s] \in CallType
                                                 /\ [c EXCEPT !.st = s].st = s
  BY MaxRetriesAssumption DEF NewCall, Start, Retry, Refused, CallType, CallStates

(* Before any request has arrived no counter exists.                       *)
LEMMA LimiterInit == Init => LimiterInv
<1> SUFFICES ASSUME Init
             PROVE  LimiterInv
  OBVIOUS
<1>1. TypeOK
  BY CallTypes, LimiterAssumption DEF Init, TypeOK
<1>2. Counted
  BY CallTypes DEF Init, Counted
<1>3. InWindow /\ Distinct /\ CounterHasTTL
  BY DEF Init, InWindow, Distinct, CounterHasTTL
<1> QED
  BY <1>1, <1>2, <1>3 DEF LimiterInv

(* A step of the client loop of call c that runs no script leaves every    *)
(* number where it is.                                                     *)
LEMMA LoopStep ==
  ASSUME LimiterInv,
         NEW c \in Requests,
         cmd[c].st # "idle",
         NEW k \in CallType, cmd' = [cmd EXCEPT ![c] = k],
         k.st \in {"sent", "failed"} \/ (k.st = "returned" /\ cmd[c].st = "answered"),
         verb' \in [Requests -> {"evalsha", "eval"}],
         UNCHANGED <<from, count, counter, left, loaded, window, win>>
  PROVE  LimiterInv'
<1>1. TypeOK'
  BY DEF LimiterInv, TypeOK
<1>2. Counted'
  BY DEF LimiterInv, TypeOK, Counted
<1>3. InWindow' /\ Distinct' /\ CounterHasTTL'
  BY DEF LimiterInv, InWindow, Distinct, CounterHasTTL, IP
<1> QED
  BY <1>1, <1>2, <1>3 DEF LimiterInv

(* The script gives call c a number nobody has in the current window, and  *)
(* a counter it creates the time to live of a window.                      *)
LEMMA ScriptStep ==
  ASSUME LimiterInv,
         NEW c \in Requests,
         cmd[c].st = "sent",
         RunScript(c),
         loaded' \in BOOLEAN,
         UNCHANGED <<from, verb>>
  PROVE  LimiterInv'
<1> DEFINE i == IP(c)
<1>1. i \in Hosts /\ counter[i] \in Nat /\ window[i] \in Nat
  BY RemoteIPType DEF LimiterInv, Counted, TypeOK, IP
<1>2. \A d \in Requests : IP(d)' = IP(d)
  BY DEF IP
<1> HIDE DEF i
<1>3. /\ counter' = [counter EXCEPT ![i] = counter[i] + 1]
      /\ left' = IF counter'[i] = 1 THEN [left EXCEPT ![i] = Window] ELSE left
      /\ window' = [window EXCEPT ![i] = IF counter[i] = 0 THEN window[i] + 1 ELSE window[i]]
      /\ win' = [win EXCEPT ![c] = window'[i]]
      /\ count' = [count EXCEPT ![c] = counter'[i]]
      /\ cmd' = [cmd EXCEPT ![c].st = "answered"]
  BY DEF RunScript, Incr, Expire, i
<1>4. /\ counter'[i] = counter[i] + 1
      /\ window'[i] = IF counter[i] = 0 THEN window[i] + 1 ELSE window[i]
      /\ count'[c] = counter[i] + 1 /\ win'[c] = window'[i]
      /\ \A d \in Requests \ {c} : count'[d] = count[d] /\ win'[d] = win[d]
      /\ \A j \in Hosts \ {i} : counter'[j] = counter[j] /\ left'[j] = left[j] /\ window'[j] = window[j]
  BY <1>1, <1>3 DEF LimiterInv, TypeOK
<1>5. TypeOK'
  <2>1. cmd' \in [Requests -> CallType]
    BY <1>3, CallTypes DEF LimiterInv, TypeOK, CallStates
  <2>2. counter' \in [Hosts -> Nat] /\ window' \in [Hosts -> Nat]
    BY <1>1, <1>3 DEF LimiterInv, TypeOK
  <2>3. left' \in [Hosts -> 0..Window]
    BY <1>1, <1>3, LimiterAssumption DEF LimiterInv, TypeOK
  <2>4. count' \in [Requests -> Nat] /\ win' \in [Requests -> Nat]
    BY <1>1, <1>3, <2>2 DEF LimiterInv, TypeOK
  <2> QED
    BY <2>1, <2>2, <2>3, <2>4 DEF LimiterInv, TypeOK
<1>6. Counted'
  <2>1. cmd'[c].st = "answered" /\ \A d \in Requests \ {c} : cmd'[d] = cmd[d]
    BY <1>3, CallTypes DEF LimiterInv, TypeOK, CallStates
  <2> QED
    BY <1>1, <1>4, <2>1 DEF LimiterInv, Counted
<1>7. ASSUME NEW d \in Requests, d # c, count[d] > 0, IP(d) = i, win[d] = window'[i]
      PROVE  count[d] <= counter[i]
  BY <1>1, <1>4, <1>7 DEF LimiterInv, InWindow, TypeOK
<1>8. InWindow'
  <2> SUFFICES ASSUME NEW d \in Requests, count'[d] > 0
               PROVE  /\ win'[d] <= window'[IP(d)]
                      /\ win'[d] = window'[IP(d)] /\ counter'[IP(d)] > 0 => count'[d] <= counter'[IP(d)]
    BY <1>2 DEF InWindow
  <2>1. CASE d = c
    BY <1>1, <1>4, <2>1 DEF i
  <2>2. CASE d # c /\ IP(d) = i
    BY <1>1, <1>4, <1>7, <2>2 DEF LimiterInv, InWindow, TypeOK
  <2>3. CASE d # c /\ IP(d) # i
    <3>1. IP(d) \in Hosts
      BY <1>4, <2>3, RemoteIPType DEF LimiterInv, Counted, TypeOK, IP
    <3> QED
      BY <1>4, <2>3, <3>1 DEF LimiterInv, InWindow
  <2> QED
    BY <2>1, <2>2, <2>3
<1>9. Distinct'
  <2>1. ASSUME NEW d \in Requests, d # c, count[d] > 0, IP(d) = i, win[d] = window'[i]
        PROVE  count[d] # count'[c]
    BY <1>1, <1>4, <1>7, <2>1 DEF LimiterInv, TypeOK
  <2> QED
    BY <1>1, <1>2, <1>4, <2>1 DEF LimiterInv, Distinct, i
<1>10. CounterHasTTL'
  BY <1>1, <1>3, <1>4, LimiterAssumption DEF LimiterInv, CounterHasTTL, TypeOK
<1> QED
  BY <1>5, <1>6, <1>8, <1>9, <1>10 DEF LimiterInv

(* Every step of a call and of time keeps the numbers of a window apart.   *)
LEMMA LimiterStep == LimiterInv /\ [Next]_vars => LimiterInv'
<1> SUFFICES ASSUME LimiterInv, [Next]_vars
             PROVE  LimiterInv'
  OBVIOUS
<1>0. \A c \in Requests : cmd[c] \in CallType
  BY DEF LimiterInv, TypeOK
<1>1. ASSUME NEW c \in Requests, NEW r \in Arrivals, StartAllow(c, r)
      PROVE  LimiterInv'
  <2>1. /\ cmd[c].st = "idle" /\ cmd'[c].st = "sent" /\ from'[c] = r
        /\ \A d \in Requests \ {c} : cmd'[d] = cmd[d] /\ from'[d] = from[d]
        /\ UNCHANGED <<count, counter, left, window, win>>
    BY <1>1, CallTypes DEF StartAllow, LimiterInv, TypeOK
  <2>2. TypeOK'
    BY <1>1, CallTypes DEF StartAllow, LimiterInv, TypeOK
  <2>3. count[c] = 0 /\ Counted'
    BY <2>1 DEF LimiterInv, Counted
  <2>4. \A d \in Requests \ {c} : IP(d)' = IP(d)
    BY <2>1 DEF IP
  <2>5. InWindow'
    BY <2>1, <2>3, <2>4 DEF LimiterInv, InWindow
  <2>6. Distinct'
    BY <2>1, <2>3, <2>4 DEF LimiterInv, Distinct
  <2>7. CounterHasTTL'
    BY <2>1 DEF LimiterInv, CounterHasTTL
  <2> QED
    BY <2>2, <2>3, <2>5, <2>6, <2>7 DEF LimiterInv
<1>2. ASSUME NEW c \in Requests, ExecEvalSha(c)
      PROVE  LimiterInv'
  <2>1. cmd[c].st = "sent" /\ UNCHANGED <<from, loaded>>
    BY <1>2 DEF ExecEvalSha
  <2>2. CASE RunScript(c) /\ UNCHANGED verb
    BY <2>1, <2>2, ScriptStep DEF LimiterInv, TypeOK
  <2>3. CASE /\ cmd' = [cmd EXCEPT ![c] = Start]
             /\ verb' = [verb EXCEPT ![c] = "eval"]
             /\ UNCHANGED <<count, counter, left, window, win>>
    <3>1. verb' \in [Requests -> {"evalsha", "eval"}]
      BY <2>3 DEF LimiterInv, TypeOK
    <3> QED
      BY <2>1, <2>3, <3>1, CallTypes, LoopStep
  <2> QED
    BY <1>2, <2>2, <2>3 DEF ExecEvalSha
<1>3. ASSUME NEW c \in Requests, ExecEval(c)
      PROVE  LimiterInv'
  BY <1>3, ScriptStep DEF ExecEval
<1>4. ASSUME NEW c \in Requests, Reply(c)
      PROVE  LimiterInv'
  <2>1. [cmd[c] EXCEPT !.st = "returned"] \in CallType /\ [cmd[c] EXCEPT !.st = "returned"].st = "returned"
    BY <1>0, CallTypes DEF CallStates
  <2>2. cmd' = [cmd EXCEPT ![c] = [cmd[c] EXCEPT !.st = "returned"]]
    BY <1>4 DEF Reply
  <2>3. verb' \in [Requests -> {"evalsha", "eval"}]
    BY <1>4 DEF Reply, LimiterInv, TypeOK
  <2>4. cmd[c].st = "answered" /\ UNCHANGED <<from, count, counter, left, loaded, window, win>>
    BY <1>4 DEF Reply
  <2> QED
    BY <2>1, <2>2, <2>3, <2>4, LoopStep
<1>5. ASSUME NEW c \in Requests, Timeout(c)
      PROVE  LimiterInv'
  <2>1. Retry(cmd[c]) \in CallType /\ Retry(cmd[c]).st \in {"sent", "failed"}
    BY <1>0, CallTypes
  <2>2. cmd[c].st # "idle" /\ cmd' = [cmd EXCEPT ![c] = Retry(cmd[c])]
    BY <1>5 DEF Timeout, InFlight
  <2>3. verb' \in [Requests -> {"evalsha", "eval"}]
    BY <1>5 DEF Timeout, LimiterInv, TypeOK
  <2> QED
    BY <1>5, <2>1, <2>2, <2>3, LoopStep DEF Timeout
<1>6. ASSUME NEW c \in Requests, Refuse(c)
      PROVE  LimiterInv'
  <2>1. Refused(cmd[c]) \in CallType /\ Refused(cmd[c]).st = "failed"
    BY <1>0, CallTypes
  <2>2. verb' \in [Requests -> {"evalsha", "eval"}]
    BY <1>6 DEF Refuse, LimiterInv, TypeOK
  <2> QED
    BY <1>6, <2>1, <2>2, LoopStep DEF Refuse
<1>7. CASE Tick
  <2>1. /\ left' = [i \in Hosts |-> IF left[i] > 0 THEN left[i] - 1 ELSE 0]
        /\ counter' = [i \in Hosts |-> IF left[i] = 1 THEN 0 ELSE counter[i]]
        /\ UNCHANGED <<cmd, from, verb, count, loaded, window, win>>
    BY <1>7 DEF Tick
  <2>2. TypeOK'
    BY <2>1, LimiterAssumption DEF LimiterInv, TypeOK
  <2>3. Counted' /\ Distinct'
    BY <2>1 DEF LimiterInv, Counted, Distinct, IP
  <2>4. \A c \in Requests : IP(c)' = IP(c) /\ (count[c] > 0 => IP(c) \in Hosts)
    BY <2>1, RemoteIPType DEF LimiterInv, Counted, TypeOK, IP
  <2>5. InWindow'
    BY <2>1, <2>4 DEF LimiterInv, InWindow, TypeOK
  <2>6. CounterHasTTL'
    BY <2>1, LimiterAssumption DEF LimiterInv, CounterHasTTL, TypeOK
  <2> QED
    BY <2>2, <2>3, <2>5, <2>6 DEF LimiterInv
<1>8. CASE UNCHANGED vars
  <2>1. TypeOK'
    BY <1>8 DEF vars, LimiterInv, TypeOK
  <2> QED
    BY <1>8, <2>1 DEF vars, LimiterInv, Counted, InWindow, Distinct, CounterHasTTL, IP
<1> QED
  BY <1>1, <1>2, <1>3, <1>4, <1>5, <1>6, <1>7, <1>8 DEF Next, CallStep

(* Calls with distinct numbers between 1 and Limit are at most Limit.      *)
LEMMA DistinctNumbers ==
  ASSUME NEW S, NEW f \in [S -> 1..Limit],
         \A c, d \in S : f[c] = f[d] => c = d
  PROVE  Cardinality(S) <= Limit
<1>1. f \in Injection(S, 1..Limit)
  BY DEF Injection, IsInjective
<1>2. IsFiniteSet(1..Limit) /\ Cardinality(1..Limit) = Limit
  BY FS_Interval, LimiterAssumption
<1> QED
  BY <1>1, <1>2, FS_Injection

(* Among the calls of one window of one address at most Limit were allowed. *)
LEMMA GrantedBound ==
  ASSUME LimiterInv, NEW w, NEW i
  PROVE  Cardinality({d \in Granted(w) : IP(d) = i}) <= Limit
<1> DEFINE S == {d \in Granted(w) : IP(d) = i}
<1>1. \A d \in S : count[d] \in 1..Limit
  BY LimiterAssumption DEF Granted, Allow, LimiterInv, Counted, TypeOK
<1>2. \A d, e \in S : count[d] = count[e] => d = e
  BY <1>1 DEF Granted, LimiterInv, Distinct
<1> DEFINE f == [d \in S |-> count[d]]
<1>3. f \in [S -> 1..Limit] /\ \A d, e \in S : f[d] = f[e] => d = e
  BY <1>1, <1>2
<1> HIDE DEF S, f
<1>4. Cardinality(S) <= Limit
  BY <1>3, DistinctNumbers
<1> QED
  BY <1>4 DEF S

(* The limiter never leaves its types.                                     *)
THEOREM LimiterTypeCorrect == Spec => []TypeOK
<1>1. LimiterInv => TypeOK
  BY DEF LimiterInv
<1> QED
  BY <1>1, LimiterInit, LimiterStep, PTL DEF Spec

(* Allow says yes at most Limit times in a window of an address, with any  *)
(* number of concurrent calls, lost replies and repeated scripts.          *)
THEOREM WindowBoundHolds == Spec => []WindowBound
<1>1. LimiterInv => WindowBound
  BY GrantedBound DEF WindowBound
<1> QED
  BY <1>1, LimiterInit, LimiterStep, PTL DEF Spec

(* A public host cannot widen its allowance with X-Forwarded-For or with   *)
(* new connections.                                                        *)
THEOREM PeerBoundHolds == Spec => []PeerBound
<1>1. ASSUME LimiterInv, NEW c \in Requests, from[c].host \in Hosts \ Private
      PROVE  Cardinality({d \in Granted(win[c]) : from[d].host = from[c].host}) <= Limit
  <2>1. {d \in Granted(win[c]) : from[d].host = from[c].host}
          \subseteq {d \in Granted(win[c]) : IP(d) = from[c].host}
    BY <1>1, PublicPeer DEF IP
  <2>2. Cardinality({d \in Granted(win[c]) : IP(d) = from[c].host}) <= Limit
    BY <1>1, GrantedBound
  <2>3. IsFiniteSet({d \in Granted(win[c]) : IP(d) = from[c].host})
    BY FS_Subset, LimiterAssumption DEF Granted
  <2> QED
    BY <2>1, <2>2, <2>3, FS_Subset, FS_CardinalityType, LimiterAssumption
<1>2. LimiterInv => PeerBound
  BY <1>1 DEF PeerBound
<1> QED
  BY <1>2, LimiterInit, LimiterStep, PTL DEF Spec

(* No counter is ever left without a time to live, the safety half of      *)
(* LockoutEnds: a host over its limit is never locked out for good.        *)
THEOREM NoImmortalCounter == Spec => []CounterHasTTL
<1>1. LimiterInv => CounterHasTTL
  BY DEF LimiterInv
<1> QED
  BY <1>1, LimiterInit, LimiterStep, PTL DEF Spec
=============================================================================
