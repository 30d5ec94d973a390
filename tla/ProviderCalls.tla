----------------------------- MODULE ProviderCalls -----------------------------
(***************************************************************************)
(* Calls to an LLM provider: generate looks in the response cache, passes  *)
(* the rate limiter of its adapter, calls the provider through a transport *)
(* that retries, stores the answer and gives its permit back.  Embeddings, *)
(* streams and the local adapter go to the transport at once.              *)
(*                                                                         *)
(* Every dispatcher has adapters, and so limiters, of its own; the         *)
(* response cache belongs to the process.                                  *)
(***************************************************************************)
EXTENDS Naturals, Sequences, FiniteSets, FiniteSetsExt, Functions

CONSTANTS Callers,      \* threads that call a provider
          Adapters,     \* ConfiguredProvider instances of one provider
          Prompts,      \* requests, told apart by their cache key
          Charge,       \* estimated tokens of each: the prompt's and max_tokens
          Rpm, Tpm,     \* requests and tokens a limiter admits per minute
          ConcurrentCalls, \* requests a limiter lets in at once
          RetryBudget,  \* attempts after the first
          Minute,       \* ticks of the limiter's window
          Skew,         \* the longest a thread waits between its clock and the limiter's lock
          ResponseTtl, MaxEntries,  \* of the response cache
          MaxClock      \* the clock stops here

ASSUME ProviderAssumption ==
    /\ IsFiniteSet(Callers) /\ Adapters # {} /\ Prompts # {}
    /\ Charge \in [Prompts -> Nat]
    /\ {Rpm, Tpm, RetryBudget, Skew, MaxClock} \subseteq Nat
    /\ {ConcurrentCalls, ResponseTtl, MaxEntries} \subseteq Nat \ {0}
    /\ Minute \in Nat /\ Minute > Skew

VARIABLES now,          \* monotonic()
          mock,         \* PROVIDER_MOCK_MODE
          window,       \* of each adapter: the admitted requests it still counts
          permits,      \* of each adapter: the semaphore
          responses,    \* response_cache: when each entry expires
          call,         \* what each thread is doing
          admitted,     \* history: the admissions of the last Minute - Skew ticks
          answeredAt    \* history: the prompts answered less than ResponseTtl ago

providerVars ==
    <<now, mock, window, permits, responses, call, admitted, answeredAt>>

Kinds == {"generate", "embed", "stream", "local"}
Places == {"idle", "lookup", "stamp", "acquire", "prepare", "send", "store", "release"}
ProviderCall == [at : Places, kind : Kinds, adapter : Adapters, prompt : Prompts,
                 stamp : 0..MaxClock, attempt : 0..RetryBudget]
Admission == [at : 0..MaxClock, tokens : Nat]
Some(S) == CHOOSE x \in S : TRUE
NoCall == [at |-> "idle", kind |-> "generate", adapter |-> Some(Adapters),
           prompt |-> Some(Prompts), stamp |-> 0, attempt |-> 0]

ProviderTypeOK ==
    /\ now \in 0..MaxClock
    /\ mock \in BOOLEAN
    /\ window \in [Adapters -> Seq(Admission)]
    /\ admitted \in [Adapters -> Seq(Admission)]
    /\ permits \in [Adapters -> 0..ConcurrentCalls]
    /\ DOMAIN responses \subseteq Prompts
    /\ Cardinality(DOMAIN responses) <= MaxEntries
    /\ Range(responses) \subseteq 0..(MaxClock + ResponseTtl)
    /\ DOMAIN answeredAt \subseteq Prompts /\ Range(answeredAt) \subseteq 0..MaxClock
    /\ call \in [Callers -> ProviderCall]

ProviderInit ==
    /\ now = 0
    /\ mock \in BOOLEAN
    /\ window = [a \in Adapters |-> <<>>]
    /\ admitted = [a \in Adapters |-> <<>>]
    /\ permits = [a \in Adapters |-> ConcurrentCalls]
    /\ responses = <<>>
    /\ answeredAt = <<>>
    /\ call = [c \in Callers |-> NoCall]

-----------------------------------------------------------------------------
\* The entries of w from the first of those that count.
From(w, counted) == IF counted = {} THEN <<>> ELSE SubSeq(w, Min(counted), Len(w))
\* The admissions that are not older than the given age: they are kept in their order.
Younger(w, age, t) == From(w, {i \in DOMAIN w : w[i].at + age > t})
TokensIn(w) == SumFunctionOnSet([i \in DOMAIN w |-> w[i].tokens], DOMAIN w)
At(c, place) == call' = [call EXCEPT ![c].at = place]

\* Time passes, but no thread is held up for longer than Skew before the lock.
ProviderTick ==
    /\ now < MaxClock
    /\ \A c \in Callers : call[c].at = "acquire" => now < call[c].stamp + Skew
    /\ now' = now + 1
    /\ admitted' = [a \in Adapters |-> Younger(admitted[a], Minute - Skew, now')]
    /\ answeredAt' = Restrict(answeredAt,
                        {p \in DOMAIN answeredAt : now' < answeredAt[p] + ResponseTtl})
    /\ UNCHANGED <<mock, window, permits, responses, call>>

\* A model or capability the provider lacks, and a cancelled step, change nothing.
Generate(c, a, p) ==
    /\ call[c].at = "idle"
    /\ call' = [call EXCEPT ![c] = [NoCall EXCEPT !.at = "lookup", !.adapter = a, !.prompt = p]]
    /\ UNCHANGED <<now, mock, window, permits, responses, admitted, answeredAt>>

\* Calls that go to the transport at once.
CallDirectly(c, kind) ==
    /\ call[c].at = "idle"
    /\ call' = [call EXCEPT ![c] = [NoCall EXCEPT !.at = "prepare", !.kind = kind]]
    /\ UNCHANGED <<now, mock, window, permits, responses, admitted, answeredAt>>

\* In mock mode stream and embed answer from their input.
Stream(c) == ~mock /\ CallDirectly(c, "stream")
Embed(c) == ~mock /\ CallDirectly(c, "embed")
\* OllamaProvider knows neither a limiter nor the response cache.
Local(c) == CallDirectly(c, "local")

Live_NeverExpires(p) == p \in DOMAIN responses
Live(p) == p \in DOMAIN responses /\ responses[p] > now

\* TTLCache.get, under its lock: an entry past its time is dropped.
Lookup(c) ==
    LET p == call[c].prompt
    IN  /\ call[c].at = "lookup"
        /\ IF Live(p) THEN call' = [call EXCEPT ![c] = NoCall] /\ UNCHANGED responses
           ELSE At(c, "stamp") /\ responses' = Restrict(responses, DOMAIN responses \ {p})
        /\ UNCHANGED <<now, mock, window, permits, admitted, answeredAt>>

-----------------------------------------------------------------------------
(***************************************************************************)
(* ProviderRateLimiter                                                     *)
(***************************************************************************)
\* The clock is read before the lock is taken.
Stamp(c) ==
    /\ call[c].at = "stamp"
    /\ call' = [call EXCEPT ![c].at = "acquire", ![c].stamp = now]
    /\ UNCHANGED <<now, mock, window, permits, responses, admitted, answeredAt>>

\* Entries leave from the left while the first is a minute old, so an entry whose
\* thread was overtaken stays behind the one that overtook it.  The deques of
\* requests and of tokens hold the same stamps.
Pruned_AnyExpired(w, t) == IF \E i \in DOMAIN w : w[i].at + Minute <= t THEN <<>> ELSE w
Pruned(w, t) == From(w, {i \in DOMAIN w : w[i].at + Minute > t})

Admits(w, tokens) == Len(w) < Rpm /\ TokensIn(w) + tokens <= Tpm

\* acquire: a refusal is raised before the try, and gives no permit back.
Acquire(c) ==
    LET a == call[c].adapter
        w == Pruned(window[a], call[c].stamp)
        tokens == Charge[call[c].prompt]
    IN  /\ call[c].at = "acquire"
        /\ IF Admits(w, tokens) /\ permits[a] > 0
           THEN /\ permits' = [permits EXCEPT ![a] = @ - 1]
                /\ window' = [window EXCEPT ![a] =
                                 Append(w, [at |-> call[c].stamp, tokens |-> tokens])]
                /\ admitted' = [admitted EXCEPT ![a] = Append(@, [at |-> now, tokens |-> tokens])]
                /\ call' = [call EXCEPT ![c].at = IF mock THEN "store" ELSE "prepare",
                                       ![c].stamp = 0]
           ELSE /\ window' = [window EXCEPT ![a] = w]
                /\ call' = [call EXCEPT ![c] = NoCall]
                /\ UNCHANGED <<permits, admitted>>
        /\ UNCHANGED <<now, mock, responses, answeredAt>>

-----------------------------------------------------------------------------
(***************************************************************************)
(* HTTPTransport                                                           *)
(***************************************************************************)
\* Where a call goes when the transport is done with it.
After(c, answered) ==
    IF call[c].kind # "generate" THEN call' = [call EXCEPT ![c] = NoCall]
    ELSE call' = [call EXCEPT ![c].at = IF answered THEN "store" ELSE "release",
                              ![c].attempt = 0]

\* CredentialManager.get: what is looked up may be set, cleared or mounted at any time.
Credential(kind) == IF kind = "local" THEN {TRUE} ELSE BOOLEAN

\* _headers, _generate_payload: a credential that is missing fails the call.
Prepare(c, found) ==
    /\ call[c].at = "prepare"
    /\ IF found THEN At(c, "send") ELSE After(c, FALSE)
    /\ UNCHANGED <<now, mock, window, permits, responses, admitted, answeredAt>>

\* What an attempt may end in: JSON; a timeout, a network error, 429 or 5xx; anything else.
Attempts == {"answered", "transient", "permanent"}

Retries_Always(c) == TRUE
\* request goes on after a transient failure, RetryBudget times.
Retries(c) == call[c].attempt < RetryBudget

Send(c, outcome) ==
    /\ call[c].at = "send" /\ call[c].kind # "stream"
    /\ IF outcome = "transient" /\ Retries(c)
       THEN call' = [call EXCEPT ![c].attempt = (@ + 1) % (RetryBudget + 1)]
       ELSE After(c, outcome = "answered")
    /\ UNCHANGED <<now, mock, window, permits, responses, admitted, answeredAt>>

\* stream tries once.
SendStream(c, outcome) ==
    /\ call[c].at = "send" /\ call[c].kind = "stream"
    /\ After(c, outcome = "answered")
    /\ UNCHANGED <<now, mock, window, permits, responses, admitted, answeredAt>>

-----------------------------------------------------------------------------
\* TTLCache.set: a full cache drops the entry that expires first, whether or not
\* the key is among its entries.
Put(p) ==
    \E dropped \in IF Cardinality(DOMAIN responses) < MaxEntries THEN {{}}
                   ELSE {{d} : d \in {d \in DOMAIN responses :
                                \A e \in DOMAIN responses : responses[d] <= responses[e]}} :
        responses' = [q \in (DOMAIN responses \ dropped) \cup {p} |->
                         IF q = p THEN now + ResponseTtl ELSE responses[q]]

\* _parse_generate: a field the answer lacks raises, and so does a model whose price is gone.
Parses == IF mock THEN {TRUE} ELSE BOOLEAN

Stores(parsed) == parsed

Store(c, parsed) ==
    LET p == call[c].prompt
    IN  /\ call[c].at = "store"
        /\ answeredAt' = IF parsed
                         THEN [q \in DOMAIN answeredAt \cup {p} |->
                                  IF q = p THEN now ELSE answeredAt[q]]
                         ELSE answeredAt
        /\ IF Stores(parsed) THEN Put(p) ELSE UNCHANGED responses
        /\ At(c, "release")
        /\ UNCHANGED <<now, mock, window, permits, admitted>>

\* finally
Release(c) ==
    /\ call[c].at = "release"
    /\ permits' = [permits EXCEPT ![call[c].adapter] = @ + 1]
    /\ call' = [call EXCEPT ![c] = NoCall]
    /\ UNCHANGED <<now, mock, window, responses, admitted, answeredAt>>

-----------------------------------------------------------------------------
CallStep(c) ==
    \/ Lookup(c) \/ Stamp(c) \/ Acquire(c) \/ Release(c)
    \/ \E found \in Credential(call[c].kind) : Prepare(c, found)
    \/ \E outcome \in Attempts : Send(c, outcome) \/ SendStream(c, outcome)
    \/ \E parsed \in Parses : Store(c, parsed)

ProviderNext ==
    \/ ProviderTick
    \/ \E c \in Callers :
        \/ CallStep(c)
        \/ \E a \in Adapters, p \in Prompts : Generate(c, a, p)
        \/ Stream(c) \/ Embed(c) \/ Local(c)

\* Threads run, and every attempt ends: httpx is given a timeout.
ProviderSpec ==
    /\ ProviderInit /\ [][ProviderNext]_providerVars
    /\ \A c \in Callers : WF_providerVars(CallStep(c))

-----------------------------------------------------------------------------
\* A permit is out for every generate that passed the limiter and has not ended,
\* and for no other: neither refusals, retries, failures nor answers that do not
\* parse leak one or give one back twice (provider.py:91-170, rate_limit.py:43-50).
PermitsExact ==
    \A a \in Adapters :
        permits[a] + Cardinality({c \in Callers :
            /\ call[c].kind = "generate" /\ call[c].adapter = a
            /\ call[c].at \in {"prepare", "send", "store", "release"}}) = ConcurrentCalls

\* Of any minute, less the time a thread may be held up before the lock, a limiter
\* admits no more than Rpm requests and Tpm tokens, although threads enter with
\* stamps that are not in order (rate_limit.py:32-48).
Paced ==
    \A a \in Adapters : Len(admitted[a]) <= Rpm /\ TokensIn(admitted[a]) <= Tpm

\* What generate answers from the cache, the provider answered to the same request
\* less than ResponseTtl ago (provider.py:87-90, cache.py:26-45).
CachedIsRecent ==
    [][\A c \in Callers : call[c].at = "lookup" /\ call'[c].at = "idle"
            => call[c].prompt \in DOMAIN answeredAt]_providerVars

\* Every call ends, however often the provider fails and whoever holds the permits:
\* the limiter refuses at once and the transport gives up (transport.py:29-83).
CallsEnd == \A c \in Callers : call[c].at # "idle" ~> call[c].at = "idle"

\* PermitsExact and Paced together: the limiter of an adapter counts the requests in flight
\* and of the last minute right, whatever ends them (providers/provider.py).
LimiterKept == PermitsExact /\ Paced

================================================================================
