----------------------------- MODULE ModelCalls -----------------------------
(* Calls of the language model by runs that share the cache on disk: what     *)
(* CachedLLM keeps (llm/cache.py), how the clients retry and read a reply     *)
(* (openai_llm.py, anthropic_llm.py), and what a failed call does to the run  *)
(* (question_norm.py, planner.py, scheduler.py, eval/runner.py).              *)
(*                                                                            *)
(* A prompt is a value of a small set, chosen at each call: it depends on the *)
(* question, the evidence and the feedback, which other modules model. A      *)
(* reply is known by what the readers of the program tell apart.              *)
EXTENDS Naturals

CONSTANTS
    Runs,         \* questions being answered, in threads or processes
    Prompts,      \* texts a call may send
    Models,       \* names of models
    Settings,     \* the clients and models the runs may have
    MaxRequests,  \* requests of a round: _MAX_RETRIES, 5
    MaxAttempts   \* attempts of a run at most, over all its tasks

Clients == {"openai", "anthropic"}

\* What a call is made for, in the order of a run; only the planner asks for
\* JSON. A clarification is a call like that for the answer.
Purposes == {"keywords", "plan", "attempt", "answer"}
IsJson(u) == u = "plan"

\* "object": a plan that validates; "bad": an object whose tasks do not, or for
\* the OpenAI client a list; "null": the JSON null; "broken": braces around
\* something else; "blank": no text, or none with braces.
Texts == {"object", "bad", "null", "broken", "blank"}
Message == [content: Texts, tool: Texts]

Keys == [purpose: Purposes, prompt: Prompts, model: Models]
Values == {"text", "object", "bad", "none", "empty"}

\* An answer, with the request the provider gave it to.
Answers == [to: Keys, value: Values]
NoAnswer == [value |-> "missing"]
Raised == [value |-> "raised"]

VARIABLES
    settings,  \* the client and the model of each run
    cache,     \* the cache on disk, by key
    call,      \* of each run: its next or current call, and how far that is
    told,      \* what the last call of a run returned
    ended,     \* "running", "done" or "error", of each run
    known      \* keys answered since their entry expired, for the properties

vars == <<settings, cache, call, told, ended, known>>

ASSUME SettingsAssumption == Settings \subseteq [Runs -> [client: Clients, model: Models]]
ASSUME LimitsAssumption == MaxRequests \in Nat \ {0} /\ MaxAttempts \in Nat

-----------------------------------------------------------------------------
\* Mutant: the model is left out of the key.
KeyWithoutModel(r, u, p) ==
    [purpose |-> u, prompt |-> p, model |-> CHOOSE m \in Models : TRUE]
\* The temperature, which is never sent, is part of the key too: all runs have
\* the same.
Key(r, u, p) == [purpose |-> u, prompt |-> p, model |-> settings[r].model]

\* The arguments of a tool call stand for an empty text.
Content(m) == IF m.content = "blank" THEN m.tool ELSE m.content

\* What generate returns, and what generate_json reads out of a text: one of
\* the clients parses before it looks for braces, the other only looks.
Parsed(client, text) ==
    CASE text \in {"object", "bad"} -> text
      [] text = "null" -> IF client = "openai" THEN "none" ELSE "empty"
      [] text = "broken" -> IF client = "openai" THEN "empty" ELSE "raised"
      [] text = "blank" -> "empty"
Value(client, u, text) ==
    IF IsJson(u) THEN Parsed(client, text) ELSE "text"

\* Mutant: an empty object counts as no entry.
HitIfTrue(k) == cache[k].value \notin {"missing", "none", "empty"}
\* An entry that is None cannot be told from no entry.
Hit(k) == cache[k].value \notin {"missing", "none"}

Rounds(client, u) == IF client = "openai" /\ IsJson(u) THEN 2 ELSE 1

Idle(u, n) == [purpose |-> u, attempts |-> n, state |-> "idle"]
Current(r) == Key(r, call[r].purpose, call[r].prompt)
Sent(r) == [purpose |-> call[r].purpose, prompt |-> call[r].prompt,
            model |-> settings[r].model]

-----------------------------------------------------------------------------
Init ==
    /\ settings \in Settings
    /\ cache = [k \in Keys |-> NoAnswer]
    /\ call = [r \in Runs |-> Idle("keywords", 0)]
    /\ told = [r \in Runs |-> NoAnswer]
    /\ ended = [r \in Runs |-> "running"]
    /\ known = {}

\* The call is over. Without keywords the question itself is searched for, and
\* a failed attempt is recorded by the scheduler; any other failure ends the run,
\* as does a plan that cannot be used. {} is a plan of one task.
Return(r, a) ==
    LET u == call[r].purpose
        n == call[r].attempts
    IN  /\ told' = [told EXCEPT ![r] = a]
        /\ call' = [call EXCEPT ![r] = CASE u = "keywords" -> Idle("plan", n)
                                         [] u = "plan" -> Idle("attempt", n)
                                         [] u = "attempt" -> Idle(u, n + 1)
                                         [] u = "answer" -> Idle(u, n)]
        /\ ended' = [ended EXCEPT ![r] =
                        IF u \in {"plan", "answer"} /\ a.value \in {"raised", "bad", "none"}
                        THEN "error" ELSE IF u = "answer" THEN "done" ELSE @]

CanAsk(r) ==
    /\ ended[r] = "running" /\ call[r].state = "idle"
    /\ call[r].purpose = "attempt" => call[r].attempts < MaxAttempts

AnswerFromCache(r, p) ==
    /\ CanAsk(r)
    /\ LET k == Key(r, call[r].purpose, p) IN Hit(k) /\ Return(r, cache[k])
    /\ UNCHANGED <<settings, cache, known>>

AskProvider(r, p) ==
    /\ CanAsk(r) /\ ~Hit(Key(r, call[r].purpose, p))
    /\ call' = [call EXCEPT ![r] = [purpose |-> @.purpose, attempts |-> @.attempts,
                                    state |-> "asking", prompt |-> p,
                                    round |-> 1, sent |-> 1]]
    /\ told' = [told EXCEPT ![r] = NoAnswer]
    /\ UNCHANGED <<settings, cache, ended, known>>

\* A question in ASCII is its own keywords.
SkipKeywords(r) ==
    /\ CanAsk(r) /\ call[r].purpose = "keywords"
    /\ call' = [call EXCEPT ![r] = Idle("plan", 0)]
    /\ UNCHANGED <<settings, cache, told, ended, known>>

\* Every task has its result, and the answer is to be worded.
Conclude(r) ==
    /\ ended[r] = "running"
    /\ call[r].purpose = "attempt" /\ call[r].state = "idle"
    /\ call' = [call EXCEPT ![r] = Idle("answer", @.attempts)]
    /\ UNCHANGED <<settings, cache, told, ended, known>>

Asking(r) == call[r].state = "asking"

Reply(r) ==
    /\ Asking(r)
    /\ \E m \in Message :
         LET v == Value(settings[r].client, call[r].purpose, Content(m))
         IN  IF v = "raised"
             THEN Return(r, Raised)
             ELSE /\ call' = [call EXCEPT ![r].state = "storing",
                                          ![r].round = 1, ![r].sent = 1]
                  /\ told' = [told EXCEPT ![r] = [to |-> Sent(r), value |-> v]]
                  /\ UNCHANGED ended
    /\ UNCHANGED <<settings, cache, known>>

\* Only the OpenAI client asks again, and sleeps first.
RateLimited(r) ==
    /\ Asking(r) /\ settings[r].client = "openai"
    /\ call[r].sent < MaxRequests
    /\ call' = [call EXCEPT ![r].state = "sleeping"]
    /\ UNCHANGED <<settings, cache, told, ended, known>>

\* Mutant: the request is not counted.
AskAgainUncounted(r) ==
    /\ call[r].state = "sleeping"
    /\ call' = [call EXCEPT ![r].state = "asking"]
    /\ UNCHANGED <<settings, cache, told, ended, known>>
AskAgain(r) ==
    /\ call[r].state = "sleeping"
    /\ call' = [call EXCEPT ![r].state = "asking", ![r].sent = @ + 1]
    /\ UNCHANGED <<settings, cache, told, ended, known>>

\* Any other exception, or a rate limit once too often. generate_json then asks
\* for plain text, with requests anew.
Refused(r) ==
    /\ Asking(r)
    /\ IF call[r].round < Rounds(settings[r].client, call[r].purpose)
       THEN /\ call' = [call EXCEPT ![r].round = @ + 1, ![r].sent = 1]
            /\ UNCHANGED <<told, ended>>
       ELSE Return(r, Raised)
    /\ UNCHANGED <<settings, cache, known>>

Store(r) ==
    /\ call[r].state = "storing"
    /\ cache' = [cache EXCEPT ![Current(r)] = told[r]]
    /\ known' = IF told[r].value = "none" THEN known \ {Current(r)}
                ELSE known \cup {Current(r)}
    /\ Return(r, told[r])
    /\ UNCHANGED settings

\* The entry is older than its time to live, or the cache is cleared.
Expire(k) ==
    /\ cache[k] # NoAnswer
    /\ cache' = [cache EXCEPT ![k] = NoAnswer]
    /\ known' = known \ {k}
    /\ UNCHANGED <<settings, call, told, ended>>

Step(r) ==
    \/ \E p \in Prompts : AnswerFromCache(r, p) \/ AskProvider(r, p)
    \/ SkipKeywords(r) \/ Reply(r) \/ RateLimited(r) \/ AskAgain(r)
    \/ Refused(r) \/ Store(r) \/ Conclude(r)

Rest == (\A r \in Runs : ended[r] # "running") /\ UNCHANGED vars

Next == (\E r \in Runs : Step(r)) \/ (\E k \in Keys : Expire(k)) \/ Rest

Spec == Init /\ [][Next]_vars /\ \A r \in Runs : WF_vars(Step(r))
-----------------------------------------------------------------------------
TypeOK ==
    /\ settings \in Settings
    /\ cache \in [Keys -> Answers \cup {NoAnswer}]
    /\ told \in [Runs -> Answers \cup {NoAnswer, Raised}]
    /\ ended \in [Runs -> {"running", "done", "error"}]
    /\ known \subseteq Keys
    /\ \A r \in Runs : call[r].attempts \in 0..MaxAttempts

(* Whoever filled the entry it is served from, an answer is one the provider  *)
(* gave to that very prompt, for that purpose, from the model of the run:     *)
(* neither a failure nor half an answer, nor another run's model.             *)
OwnAnswers ==
    /\ \A k \in Keys : cache[k] # NoAnswer => cache[k].to = k
    /\ \A r \in Runs : told[r] \notin {NoAnswer, Raised} =>
          /\ told[r].to.model = settings[r].model
          /\ told[r].to.purpose = "plan" =>
                told[r].value \in {"object", "bad", "none", "empty"}

(* The provider is not asked for what it has answered while the entry lives,  *)
(* although calls in flight may answer it again: not even for a plan that     *)
(* could not be read, or one that ended a run. Only a null is forgotten.      *)
AnsweredOnce ==
    [][\A r \in Runs, p \in Prompts :
           AskProvider(r, p) => Key(r, call[r].purpose, p) \notin known]_vars

(* However often the provider limits, refuses or mangles, no run is caught in *)
(* a call: it goes on, or ends with an error.                                 *)
EveryRunEnds == \A r \in Runs : <>(ended[r] # "running")
=============================================================================
