--------------------------- MODULE ModelCallsProofs ---------------------------
(* Proofs about ModelCalls, for any runs, prompts, clients and models, and any *)
(* provider.                                                                   *)
EXTENDS ModelCalls, TLAPS

USE SettingsAssumption, LimitsAssumption

(* A call, before and after its first request.                                 *)
Waiting == [purpose: Purposes, attempts: Nat, state: {"idle"}]
UnderWay == [purpose: Purposes, attempts: Nat, state: {"asking", "sleeping", "storing"},
             prompt: Prompts, round: Nat, sent: Nat]

(* What the provider said to the prompt of a key, as far as it was read.       *)
AnswerTo(k) == {a \in Answers : a.to = k /\ (k.purpose = "plan" => a.value # "text")}

(* An entry of the cache is an answer to its key. So is what a call in flight  *)
(* is about to store, since neither the settings of the run nor the prompt of  *)
(* the call change meanwhile. A key is known as long as its entry is a hit.    *)
CallInv ==
    /\ settings \in Settings
    /\ cache \in [Keys -> Answers \cup {NoAnswer}]
    /\ \A k \in Keys : cache[k] = NoAnswer \/ cache[k] \in AnswerTo(k)
    /\ call \in [Runs -> Waiting \cup UnderWay]
    /\ told \in [Runs -> Answers \cup {NoAnswer, Raised}]
    /\ \A r \in Runs :
          /\ told[r] \in {NoAnswer, Raised} \/
                \E k \in Keys : k.model = settings[r].model /\ told[r] \in AnswerTo(k)
          /\ call[r].state = "storing" => told[r] \in AnswerTo(Current(r))
    /\ known \subseteq {k \in Keys : Hit(k)}

LEMMA CallInit == Init => CallInv
<1> SUFFICES ASSUME Init PROVE CallInv
  OBVIOUS
<1>1. call \in [Runs -> Waiting \cup UnderWay]
  BY DEF Init, Idle, Waiting, Purposes
<1> QED
  BY <1>1 DEF Init, CallInv, Idle

(* The part of the invariant about the calls and what they returned.           *)
CallsInv ==
    /\ call \in [Runs -> Waiting \cup UnderWay]
    /\ told \in [Runs -> Answers \cup {NoAnswer, Raised}]
    /\ \A r \in Runs :
          /\ \/ told[r] \in {NoAnswer, Raised}
             \/ \E k \in Keys : k.model = settings[r].model /\ told[r] \in AnswerTo(k)
          /\ call[r].state = "storing" => told[r] \in AnswerTo(Current(r))

LEMMA KeyType ==
    ASSUME CallInv, NEW r \in Runs, NEW u \in Purposes, NEW p \in Prompts
    PROVE  /\ Key(r, u, p) \in Keys
           /\ Key(r, u, p).model = settings[r].model /\ Key(r, u, p).purpose = u
BY DEF CallInv, Key, Keys

LEMMA CallType ==
    ASSUME CallInv, NEW r \in Runs
    PROVE  /\ call[r].purpose \in Purposes /\ call[r].attempts \in Nat
           /\ call[r].state \in {"idle", "asking", "sleeping", "storing"}
           /\ call[r].state # "idle" => call[r] \in UnderWay /\ Current(r) \in Keys
<1>1. call[r] \in Waiting \cup UnderWay
  BY DEF CallInv
<1>2. ASSUME call[r] \in UnderWay PROVE Current(r) \in Keys
  BY <1>2, KeyType DEF Current, UnderWay
<1> QED
  BY <1>1, <1>2 DEF Waiting, UnderWay

(* A step of one run, which leaves the others alone.                           *)
LEMMA CallStep ==
    ASSUME CallInv, NEW r \in Runs, UNCHANGED settings,
           NEW c \in Waiting \cup UnderWay, call' = [call EXCEPT ![r] = c],
           NEW a, told' = [told EXCEPT ![r] = a],
           \/ a \in {NoAnswer, Raised}
           \/ \E k \in Keys : k.model = settings[r].model /\ a \in AnswerTo(k),
           c.state = "storing" => a \in AnswerTo(Key(r, c.purpose, c.prompt))
    PROVE  CallsInv'
<1>1. /\ call'[r] = c /\ told'[r] = a
      /\ \A q \in Runs \ {r} : call'[q] = call[q] /\ told'[q] = told[q]
  BY DEF CallInv
<1>2. /\ call' \in [Runs -> Waiting \cup UnderWay]
      /\ told' \in [Runs -> Answers \cup {NoAnswer, Raised}]
  BY DEF CallInv, AnswerTo
<1>3. ASSUME NEW q \in Runs
      PROVE  /\ \/ told'[q] \in {NoAnswer, Raised}
                \/ \E k \in Keys : k.model = settings[q].model /\ told'[q] \in AnswerTo(k)
             /\ call'[q].state = "storing" => told'[q] \in AnswerTo(Current(q)')
  <2>1. CASE q = r
    BY <1>1, <2>1 DEF Current, Key
  <2>2. CASE q # r
    BY <1>1, <2>2 DEF CallInv, Current, Key
  <2> QED
    BY <2>1, <2>2
<1> QED
  BY <1>2, <1>3 DEF CallsInv, AnswerTo

(* The end of a call.                                                          *)
LEMMA ReturnStep ==
    ASSUME CallInv, NEW r \in Runs, UNCHANGED settings, NEW a, Return(r, a),
           \/ a = Raised
           \/ \E k \in Keys : k.model = settings[r].model /\ a \in AnswerTo(k)
    PROVE  CallsInv'
<1> DEFINE u == call[r].purpose
           n == call[r].attempts
           c == CASE u = "keywords" -> Idle("plan", n)
                  [] u = "plan" -> Idle("attempt", n)
                  [] u = "attempt" -> Idle(u, n + 1)
                  [] u = "answer" -> Idle(u, n)
<1>1. call' = [call EXCEPT ![r] = c] /\ told' = [told EXCEPT ![r] = a]
  BY DEF Return
<1>2. u \in Purposes /\ n \in Nat
  BY CallType
<1>3. c \in Waiting /\ c.state = "idle"
  BY <1>2 DEF Idle, Waiting, Purposes
<1> HIDE DEF c
<1> QED
  BY <1>1, <1>3, CallStep

LEMMA CallInvStep == CallInv /\ [Next]_vars => CallInv'
<1> SUFFICES ASSUME CallInv, [Next]_vars PROVE CallInv'
  OBVIOUS
<1>0. ASSUME CallsInv', UNCHANGED <<settings, cache, known>>
      PROVE  CallInv'
  BY <1>0 DEF CallInv, CallsInv, Hit, AnswerTo
<1>1. ASSUME NEW r \in Runs, NEW p \in Prompts, AnswerFromCache(r, p)
      PROVE  CallInv'
  <2> DEFINE k == Key(r, call[r].purpose, p)
  <2>1. k \in Keys /\ k.model = settings[r].model
    BY CallType, KeyType
  <2>2. Hit(k) /\ Return(r, cache[k]) /\ UNCHANGED <<settings, cache, known>>
    BY <1>1 DEF AnswerFromCache
  <2> HIDE DEF k
  <2>3. cache[k] \in AnswerTo(k)
    BY <2>1, <2>2 DEF CallInv, Hit, NoAnswer
  <2>4. CallsInv'
    BY <2>1, <2>2, <2>3, ReturnStep
  <2> QED
    BY <1>0, <2>2, <2>4
<1>2. ASSUME NEW r \in Runs, NEW p \in Prompts, AskProvider(r, p)
      PROVE  CallInv'
  <2> DEFINE c == [purpose |-> call[r].purpose, attempts |-> call[r].attempts,
                   state |-> "asking", prompt |-> p, round |-> 1, sent |-> 1]
  <2>1. /\ call' = [call EXCEPT ![r] = c] /\ told' = [told EXCEPT ![r] = NoAnswer]
        /\ UNCHANGED <<settings, cache, known>>
    BY <1>2 DEF AskProvider
  <2>2. c \in UnderWay /\ c.state # "storing"
    BY CallType DEF UnderWay
  <2> HIDE DEF c
  <2>3. CallsInv'
    BY <2>1, <2>2, CallStep
  <2> QED
    BY <1>0, <2>1, <2>3
<1>3. ASSUME NEW r \in Runs, SkipKeywords(r) \/ Conclude(r)
      PROVE  CallInv'
  <2>1. PICK u \in Purposes, n \in Nat :
            call' = [call EXCEPT ![r] = Idle(u, n)]
    BY <1>3, CallType DEF SkipKeywords, Conclude, Purposes
  <2>2. UNCHANGED <<settings, cache, known, told>>
    BY <1>3 DEF SkipKeywords, Conclude
  <2>3. Idle(u, n) \in Waiting /\ Idle(u, n).state = "idle"
    BY DEF Idle, Waiting
  <2>4. told' = [told EXCEPT ![r] = told[r]]
    BY <2>2 DEF CallInv
  <2>5. CallsInv'
    BY <2>1, <2>2, <2>3, <2>4, CallStep DEF CallInv
  <2> QED
    BY <1>0, <2>2, <2>5
<1>4. ASSUME NEW r \in Runs, Reply(r)
      PROVE  CallInv'
  <2>1. call[r].state = "asking" /\ call[r] \in UnderWay /\ Current(r) \in Keys
    BY <1>4, CallType DEF Reply, Asking
  <2>2. UNCHANGED <<settings, cache, known>>
    BY <1>4 DEF Reply
  <2> DEFINE v(m) == Value(settings[r].client, call[r].purpose, Content(m))
  <2>3. PICK m \in Message :
            IF v(m) = "raised" THEN Return(r, Raised)
            ELSE /\ call' = [call EXCEPT ![r].state = "storing", ![r].round = 1, ![r].sent = 1]
                 /\ told' = [told EXCEPT ![r] = [to |-> Sent(r), value |-> v(m)]]
    BY <1>4 DEF Reply
  <2>4. CASE v(m) = "raised"
    <3>1. Return(r, Raised)
      BY <2>3, <2>4
    <3>2. CallsInv'
      BY <2>2, <3>1, ReturnStep
    <3> QED
      BY <1>0, <2>2, <3>2
  <2>5. CASE v(m) # "raised"
    <3> DEFINE c == [call[r] EXCEPT !.state = "storing", !.round = 1, !.sent = 1]
               a == [to |-> Sent(r), value |-> v(m)]
    <3>1. call' = [call EXCEPT ![r] = c] /\ told' = [told EXCEPT ![r] = a]
      BY <2>3, <2>5 DEF CallInv
    <3>2. c \in UnderWay /\ c.purpose = call[r].purpose /\ c.prompt = call[r].prompt
      BY <2>1 DEF UnderWay
    <3>3. Sent(r) = Current(r)
      BY DEF Sent, Current, Key
    <3>4. v(m) \in Values /\ (call[r].purpose = "plan" => v(m) # "text")
      <4>1. Content(m) \in Texts
        BY DEF Content, Message
      <4> QED
        BY <2>5, <4>1 DEF Value, Parsed, IsJson, Texts, Values
    <3>5. a \in AnswerTo(Current(r))
      BY <2>1, <3>3, <3>4 DEF AnswerTo, Answers, Sent
    <3>6. Current(r).model = settings[r].model
      BY DEF Current, Key
    <3> HIDE DEF c, a
    <3>7. CallsInv'
      BY <2>1, <2>2, <3>1, <3>2, <3>5, <3>6, CallStep DEF Current
    <3> QED
      BY <1>0, <2>2, <3>7
  <2> QED
    BY <2>4, <2>5
<1>5. ASSUME NEW r \in Runs, RateLimited(r) \/ AskAgain(r)
      PROVE  CallInv'
  <2>1. call[r].state \in {"asking", "sleeping"} /\ call[r] \in UnderWay
    BY <1>5, CallType DEF RateLimited, Asking, AskAgain
  <2>2. UNCHANGED <<settings, cache, known, told>>
    BY <1>5 DEF RateLimited, AskAgain
  <2>3. PICK c \in UnderWay : call' = [call EXCEPT ![r] = c] /\ c.state # "storing"
    <3>1. CASE RateLimited(r)
      <4> DEFINE c == [call[r] EXCEPT !.state = "sleeping"]
      <4>1. call' = [call EXCEPT ![r] = c]
        BY <3>1 DEF RateLimited
      <4>2. c \in UnderWay /\ c.state = "sleeping"
        BY <2>1 DEF UnderWay
      <4> QED
        BY <4>1, <4>2
    <3>2. CASE AskAgain(r)
      <4> DEFINE c == [call[r] EXCEPT !.state = "asking", !.sent = call[r].sent + 1]
      <4>1. call' = [call EXCEPT ![r] = c]
        BY <3>2 DEF AskAgain, CallInv
      <4>2. call[r].sent + 1 \in Nat
        BY <2>1 DEF UnderWay
      <4>3. c \in UnderWay /\ c.state = "asking"
        BY <2>1, <4>2 DEF UnderWay
      <4> QED
        BY <4>1, <4>3
    <3> QED
      BY <1>5, <3>1, <3>2
  <2>4. told' = [told EXCEPT ![r] = told[r]]
    BY <2>2 DEF CallInv
  <2>5. CallsInv'
    BY <2>2, <2>3, <2>4, CallStep DEF CallInv
  <2> QED
    BY <1>0, <2>2, <2>5
<1>6. ASSUME NEW r \in Runs, Refused(r)
      PROVE  CallInv'
  <2>1. call[r].state = "asking" /\ call[r] \in UnderWay
    BY <1>6, CallType DEF Refused, Asking
  <2>2. UNCHANGED <<settings, cache, known>>
    BY <1>6 DEF Refused
  <2>3. CASE Return(r, Raised)
    BY <1>0, <2>2, <2>3, ReturnStep
  <2>4. CASE ~Return(r, Raised)
    <3> DEFINE c == [call[r] EXCEPT !.round = call[r].round + 1, !.sent = 1]
    <3>1. call' = [call EXCEPT ![r] = c] /\ UNCHANGED told
      BY <1>6, <2>4 DEF Refused, CallInv
    <3>2. call[r].round + 1 \in Nat
      BY <2>1 DEF UnderWay
    <3>3. c \in UnderWay /\ c.state = "asking"
      BY <2>1, <3>2 DEF UnderWay
    <3> HIDE DEF c
    <3>4. told' = [told EXCEPT ![r] = told[r]]
      BY <3>1 DEF CallInv
    <3>5. CallsInv'
      BY <2>2, <3>1, <3>3, <3>4, CallStep DEF CallInv
    <3> QED
      BY <1>0, <2>2, <3>5
  <2> QED
    BY <2>3, <2>4
<1>7. ASSUME NEW r \in Runs, Store(r)
      PROVE  CallInv'
  <2> DEFINE k == Current(r)
  <2>1. /\ UNCHANGED settings /\ Return(r, told[r])
        /\ cache' = [cache EXCEPT ![k] = told[r]]
        /\ known' = IF told[r].value = "none" THEN known \ {k} ELSE known \cup {k}
    BY <1>7 DEF Store
  <2>2. k \in Keys /\ k.model = settings[r].model /\ told[r] \in AnswerTo(k)
    <3>1. call[r].state = "storing"
      BY <1>7 DEF Store
    <3> QED
      BY <3>1, CallType DEF CallInv, Current, Key
  <2> HIDE DEF k
  <2>3. CallsInv'
    BY <2>1, <2>2, ReturnStep
  <2>4. /\ cache' \in [Keys -> Answers \cup {NoAnswer}] /\ cache'[k] = told[r]
        /\ \A j \in Keys \ {k} : cache'[j] = cache[j]
    BY <2>1, <2>2 DEF CallInv, AnswerTo
  <2>5. \A j \in Keys : cache'[j] = NoAnswer \/ cache'[j] \in AnswerTo(j)
    BY <2>2, <2>4 DEF CallInv
  <2>6. known' \subseteq {j \in Keys : Hit(j)'}
    <3>1. told[r].value # "missing"
      BY <2>2 DEF AnswerTo, Answers, Values
    <3>2. ASSUME NEW j \in known' PROVE j \in Keys /\ Hit(j)'
      BY <2>1, <2>2, <2>4, <3>1, <3>2 DEF CallInv, Hit
    <3> QED
      BY <3>2
  <2> QED
    BY <2>1, <2>3, <2>4, <2>5, <2>6 DEF CallInv, CallsInv, AnswerTo
<1>8. ASSUME NEW k \in Keys, Expire(k)
      PROVE  CallInv'
  <2>1. /\ cache' = [cache EXCEPT ![k] = NoAnswer] /\ known' = known \ {k}
        /\ UNCHANGED <<settings, call, told>>
    BY <1>8 DEF Expire
  <2>2. /\ cache' \in [Keys -> Answers \cup {NoAnswer}] /\ cache'[k] = NoAnswer
        /\ \A j \in Keys \ {k} : cache'[j] = cache[j]
    BY <2>1 DEF CallInv
  <2>3. known' \subseteq {j \in Keys : Hit(j)'}
    BY <2>1, <2>2 DEF CallInv, Hit
  <2>4. \A r \in Runs : Current(r)' = Current(r)
    BY <2>1 DEF Current, Key
  <2> QED
    BY <2>1, <2>2, <2>3, <2>4 DEF CallInv, AnswerTo
<1>9. CASE UNCHANGED vars
  BY <1>9 DEF vars, CallInv, Hit, Current, Key, AnswerTo
<1> QED
  BY <1>1, <1>2, <1>3, <1>4, <1>5, <1>6, <1>7, <1>8, <1>9 DEF Next, Step, Rest

LEMMA CallInvariant == Spec => []CallInv
BY CallInit, CallInvStep, PTL DEF Spec

(* No run makes more attempts than it may, since it asks before each.          *)
Bounded ==
    /\ ended \in [Runs -> {"running", "done", "error"}]
    /\ \A r \in Runs :
          /\ call[r].attempts <= MaxAttempts
          /\ call[r].purpose = "attempt" /\ call[r].state # "idle" =>
                call[r].attempts < MaxAttempts

LEMMA BoundedInit == Init => Bounded
BY DEF Init, Bounded, Idle

(* A step of one run that starts a call within the bound, or goes on with one. *)
LEMMA BoundedCall ==
    ASSUME CallInv, Bounded, NEW r \in Runs, NEW c, call' = [call EXCEPT ![r] = c],
           ended' \in [Runs -> {"running", "done", "error"}],
           c.attempts <= MaxAttempts,
           c.purpose = "attempt" /\ c.state # "idle" => c.attempts < MaxAttempts
    PROVE  Bounded'
<1>1. call'[r] = c /\ \A q \in Runs \ {r} : call'[q] = call[q]
  BY DEF CallInv
<1> QED
  BY <1>1 DEF Bounded

LEMMA BoundedReturn ==
    ASSUME CallInv, Bounded, NEW r \in Runs, NEW a, Return(r, a),
           call[r].purpose = "attempt" => call[r].attempts < MaxAttempts
    PROVE  Bounded'
<1> DEFINE u == call[r].purpose
           n == call[r].attempts
           c == CASE u = "keywords" -> Idle("plan", n)
                  [] u = "plan" -> Idle("attempt", n)
                  [] u = "attempt" -> Idle(u, n + 1)
                  [] u = "answer" -> Idle(u, n)
<1>1. call' = [call EXCEPT ![r] = c]
  BY DEF Return
<1>2. u \in Purposes /\ n \in Nat /\ n <= MaxAttempts
  BY CallType DEF Bounded
<1>3. c.attempts <= MaxAttempts /\ c.state = "idle"
  BY <1>2 DEF Idle, Purposes
<1>4. ended' \in [Runs -> {"running", "done", "error"}]
  BY DEF Return, Bounded
<1> HIDE DEF c
<1> QED
  BY <1>1, <1>3, <1>4, BoundedCall

LEMMA BoundedStep == CallInv /\ Bounded /\ [Next]_vars => Bounded'
<1> SUFFICES ASSUME CallInv, Bounded, [Next]_vars PROVE Bounded'
  OBVIOUS
<1>1. ASSUME NEW r \in Runs, NEW p \in Prompts, AnswerFromCache(r, p)
      PROVE  Bounded'
  BY <1>1, BoundedReturn DEF AnswerFromCache, CanAsk
<1>2. ASSUME NEW r \in Runs, NEW p \in Prompts, AskProvider(r, p)
      PROVE  Bounded'
  <2> DEFINE c == [purpose |-> call[r].purpose, attempts |-> call[r].attempts,
                   state |-> "asking", prompt |-> p, round |-> 1, sent |-> 1]
  <2>1. call' = [call EXCEPT ![r] = c] /\ UNCHANGED ended
    BY <1>2 DEF AskProvider
  <2>2. /\ c.attempts <= MaxAttempts
        /\ c.purpose = "attempt" => c.attempts < MaxAttempts
    BY <1>2 DEF AskProvider, CanAsk, Bounded
  <2> HIDE DEF c
  <2> QED
    BY <2>1, <2>2, BoundedCall DEF Bounded
<1>3. ASSUME NEW r \in Runs, SkipKeywords(r) \/ Conclude(r)
      PROVE  Bounded'
  <2>1. PICK u \in Purposes, n \in {0, call[r].attempts} :
            call' = [call EXCEPT ![r] = Idle(u, n)] /\ UNCHANGED ended
    BY <1>3 DEF SkipKeywords, Conclude, Purposes
  <2>2. n <= MaxAttempts
    BY DEF Bounded
  <2>3. Idle(u, n).attempts = n /\ Idle(u, n).state = "idle"
    BY DEF Idle
  <2> QED
    BY <2>1, <2>2, <2>3, BoundedCall DEF Bounded
<1>4. ASSUME NEW r \in Runs,
             Reply(r) \/ RateLimited(r) \/ AskAgain(r) \/ Refused(r) \/ Store(r)
      PROVE  Bounded'
  <2>1. call[r].state # "idle" /\ call[r] \in UnderWay
    BY <1>4, CallType DEF Reply, RateLimited, AskAgain, Refused, Store, Asking
  <2>2. call[r].purpose = "attempt" => call[r].attempts < MaxAttempts
    BY <2>1 DEF Bounded
  <2>3. CASE \E a : Return(r, a)
    BY <2>2, <2>3, BoundedReturn
  <2>4. CASE ~\E a : Return(r, a)
    <3>1. UNCHANGED ended
      BY <1>4, <2>4 DEF Reply, RateLimited, AskAgain, Refused, Store
    <3>2. PICK c : /\ call' = [call EXCEPT ![r] = c]
                   /\ c.attempts = call[r].attempts /\ c.purpose = call[r].purpose
      <4>1. CASE Reply(r)
        <5> DEFINE c == [call[r] EXCEPT !.state = "storing", !.round = 1, !.sent = 1]
        <5>1. call' = [call EXCEPT ![r] = c]
          BY <2>4, <4>1 DEF Reply
        <5>2. c.attempts = call[r].attempts /\ c.purpose = call[r].purpose
          BY <2>1 DEF UnderWay
        <5> QED
          BY <5>1, <5>2
      <4>2. CASE RateLimited(r)
        <5> DEFINE c == [call[r] EXCEPT !.state = "sleeping"]
        <5>1. call' = [call EXCEPT ![r] = c]
          BY <4>2 DEF RateLimited
        <5>2. c.attempts = call[r].attempts /\ c.purpose = call[r].purpose
          BY <2>1 DEF UnderWay
        <5> QED
          BY <5>1, <5>2
      <4>3. CASE AskAgain(r)
        <5> DEFINE c == [call[r] EXCEPT !.state = "asking", !.sent = call[r].sent + 1]
        <5>1. call' = [call EXCEPT ![r] = c]
          BY <4>3 DEF AskAgain, CallInv
        <5>2. c.attempts = call[r].attempts /\ c.purpose = call[r].purpose
          BY <2>1 DEF UnderWay
        <5> QED
          BY <5>1, <5>2
      <4>4. CASE Refused(r)
        <5> DEFINE c == [call[r] EXCEPT !.round = call[r].round + 1, !.sent = 1]
        <5>1. call' = [call EXCEPT ![r] = c]
          BY <2>4, <4>4 DEF Refused, CallInv
        <5>2. c.attempts = call[r].attempts /\ c.purpose = call[r].purpose
          BY <2>1 DEF UnderWay
        <5> QED
          BY <5>1, <5>2
      <4> QED
        BY <1>4, <2>4, <4>1, <4>2, <4>3, <4>4 DEF Store
    <3> QED
      BY <2>2, <3>1, <3>2, BoundedCall DEF Bounded
  <2> QED
    BY <2>3, <2>4
<1>5. CASE (\E k \in Keys : Expire(k)) \/ UNCHANGED vars
  BY <1>5 DEF Expire, vars, Bounded
<1> QED
  BY <1>1, <1>2, <1>3, <1>4, <1>5 DEF Next, Step, Rest

(* The variables of the calls keep their types.                                *)
THEOREM TypeCorrect == Spec => []TypeOK
<1>1. CallInv /\ Bounded => TypeOK
  <2> SUFFICES ASSUME CallInv, Bounded PROVE TypeOK
    OBVIOUS
  <2>1. ASSUME NEW r \in Runs PROVE call[r].attempts \in 0..MaxAttempts
    <3>1. call[r].attempts \in Nat /\ call[r].attempts <= MaxAttempts
      BY CallType DEF Bounded
    <3> QED
      BY <3>1
  <2> QED
    BY <2>1 DEF CallInv, Bounded, TypeOK
<1> QED
  BY <1>1, CallInvariant, BoundedInit, BoundedStep, PTL DEF Spec

(* A run is given answers of its own model to its own prompts only, whoever    *)
(* filled the cache (llm/cache.py:31-66).                                      *)
THEOREM AnswersAreOwn == Spec => []OwnAnswers
<1>1. CallInv => OwnAnswers
  BY DEF CallInv, OwnAnswers, AnswerTo, Answers, Values
<1> QED
  BY <1>1, CallInvariant, PTL

(* The provider is not asked again for what it has answered, while that is     *)
(* kept, unless the answer was a null (llm/cache.py:38-66).                    *)
THEOREM ProviderAskedOnce == Spec => AnsweredOnce
<1>1. CallInv /\ [Next]_vars =>
          [\A r \in Runs, p \in Prompts :
              AskProvider(r, p) => Key(r, call[r].purpose, p) \notin known]_vars
  BY DEF CallInv, AskProvider
<1> QED
  BY <1>1, CallInvariant, PTL DEF Spec, AnsweredOnce
=============================================================================
