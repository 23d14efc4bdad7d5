---------------------------- MODULE RateLimiter ----------------------------
(***************************************************************************)
(* redisRateLimiter (ratelimit.go:10-49): one Redis counter per bucket and *)
(* IP, incremented by a Lua script that also starts the window of one hour *)
(* when it creates the counter.  Allow runs the script through the         *)
(* retrying client of RedisClient and fails closed.                        *)
(*                                                                         *)
(* The HTTP request names the address it is counted under as ClientAddress *)
(* says.  The module models one bucket.  Time is the number of ticks each counter *)
(* has left to live, so it needs no bound.                                 *)
(***************************************************************************)
EXTENDS RedisClient, ClientAddress, FiniteSets

CONSTANTS Requests,  \* calls of Allow
          Limit,     \* requests per window
          Window     \* length of a window in ticks (3600 s in the script)

ASSUME LimiterAssumption ==
  /\ IsFiniteSet(Requests)
  /\ Limit \in Nat \ {0}
  /\ Window \in Nat \ {0}

VARIABLES cmd,      \* cmd[c]: the client loop of call c
          from,     \* from[c]: the HTTP request of call c, NoArrival before
          verb,     \* verb[c]: the command c sends, EVALSHA first
          count,    \* count[c]: the counter value the script answered to c
          counter,  \* Redis: counter[i], 0 when the key does not exist
          left,     \* Redis: ticks until counter[i] expires, 0 for no TTL
          loaded,   \* Redis: the script is in the script cache
          window,   \* history: how many windows address i has had
          win       \* history: the window in which count[c] was counted

vars == <<cmd, from, verb, count, counter, left, loaded, window, win>>

NoArrival == [host |-> "none", port |-> "none", xff |-> NoEntry]

(* The address Allow is called with for request c.                         *)
IP(c) == RemoteIP(from[c])

TypeOK ==
  /\ cmd \in [Requests -> CallType]
  /\ from \in [Requests -> Arrivals \cup {NoArrival}]
  /\ verb \in [Requests -> {"evalsha", "eval"}]
  /\ count \in [Requests -> Nat]
  /\ counter \in [Hosts -> Nat]
  /\ left \in [Hosts -> 0..Window]
  /\ loaded \in BOOLEAN
  /\ window \in [Hosts -> Nat]
  /\ win \in [Requests -> Nat]

Init ==
  /\ cmd = [c \in Requests |-> NewCall]
  /\ from = [c \in Requests |-> NoArrival]
  /\ verb = [c \in Requests |-> "evalsha"]
  /\ count = [c \in Requests |-> 0]
  /\ counter = [i \in Hosts |-> 0]
  /\ left = [i \in Hosts |-> 0]
  /\ loaded \in BOOLEAN
  /\ window = [i \in Hosts |-> 0]
  /\ win = [c \in Requests |-> 0]

-----------------------------------------------------------------------------
(* RateLimit: a request arrives and Allow is called for its address.       *)
StartAllow(c, r) ==
  /\ cmd[c] = NewCall
  /\ from' = [from EXCEPT ![c] = r]
  /\ cmd' = [cmd EXCEPT ![c] = Start]
  /\ UNCHANGED <<verb, count, counter, left, loaded, window, win>>

(* Faulty variant of Incr: the counter saturates at the limit. *)
IncrToLimit(i) == counter' = [counter EXCEPT ![i] = IF @ < Limit THEN @ + 1 ELSE @]

(* incrScript: INCR, and EXPIRE when the counter was just created.         *)
Incr(i) == counter' = [counter EXCEPT ![i] = @ + 1]

(* Faulty variant of Expire: EXPIRE is never run. *)
NeverExpire(i) == UNCHANGED left

Expire(i) == left' = IF counter'[i] = 1 THEN [left EXCEPT ![i] = Window] ELSE left

RunScript(c) ==
  /\ Incr(IP(c))
  /\ Expire(IP(c))
  /\ window' = [window EXCEPT ![IP(c)] = IF counter[IP(c)] = 0 THEN @ + 1 ELSE @]
  /\ win' = [win EXCEPT ![c] = window'[IP(c)]]
  /\ count' = [count EXCEPT ![c] = counter'[IP(c)]]
  /\ cmd' = [cmd EXCEPT ![c].st = "answered"]

(* Script.Run tries EVALSHA; on NOSCRIPT it starts over with EVAL.         *)
ExecEvalSha(c) ==
  /\ cmd[c].st = "sent" /\ verb[c] = "evalsha"
  /\ \/ /\ loaded
        /\ RunScript(c)
        /\ UNCHANGED verb
     \/ /\ ~loaded
        /\ cmd' = [cmd EXCEPT ![c] = Start]
        /\ verb' = [verb EXCEPT ![c] = "eval"]
        /\ UNCHANGED <<count, counter, left, window, win>>
  /\ UNCHANGED <<from, loaded>>

ExecEval(c) ==
  /\ cmd[c].st = "sent" /\ verb[c] = "eval"
  /\ RunScript(c)
  /\ loaded' = TRUE
  /\ UNCHANGED <<from, verb>>

Reply(c) ==
  /\ cmd[c].st = "answered"
  /\ cmd' = [cmd EXCEPT ![c].st = "returned"]
  /\ UNCHANGED <<from, verb, count, counter, left, loaded, window, win>>

(* Request or reply is lost: the client sends the script again or gives up. *)
Timeout(c) ==
  /\ InFlight(cmd[c])
  /\ cmd' = [cmd EXCEPT ![c] = Retry(@)]
  /\ UNCHANGED <<from, verb, count, counter, left, loaded, window, win>>

(* Redis answers with an error the client does not retry.                  *)
Refuse(c) ==
  /\ cmd[c].st = "sent"
  /\ cmd' = [cmd EXCEPT ![c] = Refused(@)]
  /\ UNCHANGED <<from, verb, count, counter, left, loaded, window, win>>

(* Time passes; a counter whose TTL runs out is deleted.                   *)
Tick ==
  /\ \E i \in Hosts : left[i] > 0
  /\ left' = [i \in Hosts |-> IF left[i] > 0 THEN left[i] - 1 ELSE 0]
  /\ counter' = [i \in Hosts |-> IF left[i] = 1 THEN 0 ELSE counter[i]]
  /\ UNCHANGED <<cmd, from, verb, count, loaded, window, win>>

CallStep(c) ==
  \/ \E r \in Arrivals : StartAllow(c, r)
  \/ ExecEvalSha(c) \/ ExecEval(c) \/ Reply(c) \/ Timeout(c) \/ Refuse(c)

Next == (\E c \in Requests : CallStep(c)) \/ Tick

Spec == Init /\ [][Next]_vars

(* Only time is fair: nothing obliges a client to send another request.    *)
FairSpec == Spec /\ WF_vars(Tick)

-----------------------------------------------------------------------------
(* Allow: an error blocks the request, otherwise count <= limit decides.   *)
Allow(c) == cmd[c].st = "returned" /\ count[c] <= Limit

Granted(w) == {c \in Requests : win[c] = w /\ Allow(c)}

(* Within one window of an address Allow says yes at most Limit times,     *)
(* whatever the interleaving of calls, lost replies and repeated scripts.  *)
WindowBound ==
  \A c \in Requests : Cardinality({d \in Granted(win[c]) : IP(d) = IP(c)}) <= Limit

(* middleware.go:133, forwarded addresses are believed only from a private *)
(* peer: any other host gets at most Limit requests through in a window of *)
(* its, whatever header it sends and however often it reconnects.          *)
PeerBound ==
  \A c \in Requests : from[c].host \in Hosts \ Private
    => Cardinality({d \in Granted(win[c]) : from[d].host = from[c].host}) <= Limit

(* INCR and EXPIRE are one script: a counter never outlives its window, so *)
(* an address that has used up its requests is not locked out for good.    *)
LockoutEnds == \A i \in Hosts : counter[i] >= Limit ~> counter[i] = 0
=============================================================================
