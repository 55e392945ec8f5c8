---------------------------- MODULE Throttling ------------------------------
(***************************************************************************)
(* The rate limits of one client. REST framework keeps the times of a      *)
(* client's requests in Django's default cache; the settings configure     *)
(* none, so it is LocMemCache and every gunicorn process has its own,      *)
(* empty when the process starts. A throttle reads a history, decides, and *)
(* writes it back; with GUNICORN_THREADS > 1 another thread may do the     *)
(* same in between.                                                        *)
(*                                                                         *)
(* Time is counted in ticks; an entry of a history is its age in ticks.    *)
(***************************************************************************)
EXTENDS Naturals, FiniteSets, Sequences, Functions

CONSTANTS Processes,    \* gunicorn worker processes of all pods
          Threads,      \* their threads
          Deployments,  \* which threads may share a process
          Rate,         \* RATE_LIMIT_ANON, RATE_LIMIT_USER: requests per window
          Window        \* the window of the rates in ticks

Scopes == {"anon", "user"}

\* GUNICORN_WORKERS processes with GUNICORN_THREADS threads each.
ASSUME DeploymentsAssumption == Deployments \subseteq [Threads -> Processes]
ASSUME ThreadsAssumption == IsFiniteSet(Threads)
ASSUME RateAssumption == Rate \in [Scopes -> Nat \ {0}] /\ Window \in Nat \ {0}

VARIABLES process,  \* the process of each thread
          known,    \* the client sends a valid token
          cache,    \* its history per process and scope, newest entry first
          req,      \* what each thread does for it
          allowed,  \* history: ages of the requests its narrowest throttle let pass
          blind     \* history: ticks until a lost entry no longer matters

settings == <<process, known>>
vars == <<settings, cache, req, allowed, blind>>

NoHistory == [s \in Scopes |-> <<>>]
Idle == [at |-> "idle"]

\* todo are the throttles the request has not asked yet, read the history to write back.
Request(todo) == [at |-> "lookup", todo |-> todo, read |-> <<>>]
Scope(t) == Head(req[t].todo)

\* allow_request pops expired entries from the end until it meets one that is not.
RecentLength(ages) ==
  CHOOSE n \in 0 .. Len(ages) : /\ n = 0 \/ ages[n] < Window
                                /\ \A i \in n + 1 .. Len(ages) : ages[i] >= Window
Recent(ages) == SubSeq(ages, 1, RecentLength(ages))
Older(ages) == Recent([i \in DOMAIN ages |-> ages[i] + 1])

-----------------------------------------------------------------------------
(* A request, from authentication to the view.                             *)

\* AnonRateThrottle has no history for an authenticated request; UserRateThrottle has
\* one for every request, under the user's key or under the address.
Throttles == IF known THEN <<"user">> ELSE <<"anon", "user">>

\* The first throttle is the narrower one: the rate a client may count on.
Limit == Head(Throttles)

\* What all processes together may let pass, and how much of it the model remembers.
Budget == Rate[Limit] * Cardinality(Range(process))
Newest(ages) == IF Len(ages) > Budget + 1 THEN SubSeq(ages, 1, Budget + 1) ELSE ages

\* A lost entry of history s matters until the window has passed.
Blinds(s, lost) == blind' = IF s = Limit /\ lost THEN Window ELSE blind

Arrive(t) ==
  /\ req[t] = Idle
  /\ req' = [req EXCEPT ![t] = Request(Throttles)]
  /\ UNCHANGED <<settings, cache, allowed, blind>>

\* check_throttles asks every throttle, also after one has refused.
AfterThrottle(r) ==
  IF Len(r.todo) > 1 THEN [r EXCEPT !.at = "lookup", !.todo = Tail(@), !.read = <<>>] ELSE Idle

\* Another thread of the process has read the history and has not written it yet.
Contended(t) ==
  \E u \in Threads \ {t} :
    process[u] = process[t] /\ req[u].at = "store" /\ Scope(u) = Scope(t)

AllowsOneMore(s, history) == Len(history) <= Rate[s]     \* mutant: off by one
Allows(s, history) == Len(history) < Rate[s]

Penalized(history) == <<0>> \o SubSeq(history, 1, Len(history) - 1)  \* mutant: refused requests are recorded
AfterRefusal(history) == history

\* allow_request: read the history, decide by its length.
Lookup(t) ==
  /\ req[t].at = "lookup"
  /\ LET s == Scope(t)
         history == cache[process[t]][s]
     IN  \/ /\ ~Allows(s, history)
            /\ req' = [req EXCEPT ![t] = AfterThrottle(@)]
            /\ cache' = [cache EXCEPT ![process[t]][s] = AfterRefusal(history)]
            /\ UNCHANGED <<allowed, blind>>
         \/ /\ Allows(s, history)
            /\ req' = [req EXCEPT ![t].at = "store", ![t].read = <<0>> \o history]
            /\ allowed' = IF s = Limit THEN Newest(<<0>> \o allowed) ELSE allowed
            /\ Blinds(s, Contended(t))
            /\ UNCHANGED cache
  /\ UNCHANGED settings

\* throttle_success: write the history back with the new entry in front.
Store(t) ==
  /\ req[t].at = "store"
  /\ cache' = [cache EXCEPT ![process[t]][Scope(t)] = req[t].read]
  /\ Blinds(Scope(t), Contended(t))
  /\ req' = [req EXCEPT ![t] = AfterThrottle(@)]
  /\ UNCHANGED <<settings, allowed>>

-----------------------------------------------------------------------------
(* The environment.                                                        *)

Knows(p, s) ==
  \/ cache[p][s] # <<>>
  \/ \E t \in Threads : process[t] = p /\ req[t].at = "store" /\ Scope(t) = s

\* gunicorn replaces a process: after --max-requests, a timeout or a crash.
Restart(p) ==
  /\ cache' = [cache EXCEPT ![p] = NoHistory]
  /\ req' = [t \in Threads |-> IF process[t] = p THEN Idle ELSE req[t]]
  /\ Blinds(Limit, Knows(p, Limit))
  /\ UNCHANGED <<settings, allowed>>

\* LocMemCache keeps 300 entries: the histories of other clients push this one out.
Cull(p, s) ==
  /\ cache[p][s] # <<>>
  /\ cache' = [cache EXCEPT ![p][s] = <<>>]
  /\ Blinds(s, TRUE)
  /\ UNCHANGED <<settings, req, allowed>>

Tick ==
  /\ cache' = [p \in Processes |-> [s \in Scopes |-> Older(cache[p][s])]]
  /\ allowed' = Older(allowed)
  /\ blind' = IF blind = 0 THEN 0 ELSE blind - 1
  /\ req' = [t \in Threads |-> IF req[t].at = "store" THEN [req[t] EXCEPT !.read = Older(@)] ELSE req[t]]
  /\ UNCHANGED settings

-----------------------------------------------------------------------------
Init ==
  /\ process \in Deployments
  /\ known \in BOOLEAN
  /\ cache = [p \in Processes |-> NoHistory]
  /\ req = [t \in Threads |-> Idle]
  /\ allowed = <<>>
  /\ blind = 0

Proceed(t) == Lookup(t) \/ Store(t)

Next ==
  \/ \E t \in Threads : Arrive(t) \/ Proceed(t)
  \/ \E p \in Processes : Restart(p) \/ \E s \in Scopes : Cull(p, s)
  \/ Tick

Spec == Init /\ [][Next]_vars

\* Threads go on and time passes; nobody has to call and nothing has to fail.
FairSpec == Spec /\ WF_vars(Tick) /\ \A t \in Threads : WF_vars(Proceed(t))

-----------------------------------------------------------------------------
(* Properties.                                                             *)

Ages == 0 .. Window - 1
Requests == [at: {"lookup", "store"}, todo: {<<"anon", "user">>, <<"user">>}, read: Seq(Ages)]

\* Every variable holds a value of its kind; no history is longer than its rate.
TypeOK ==
  /\ process \in Deployments
  /\ known \in BOOLEAN
  /\ cache \in [Processes -> [Scopes -> Seq(Ages)]]
  /\ \A p \in Processes, s \in Scopes : Len(cache[p][s]) <= Rate[s]
  /\ req \in [Threads -> {Idle} \cup Requests]
  /\ \A t \in Threads : req[t] # Idle =>
       /\ Len(req[t].read) <= Rate[Scope(t)]
       /\ known => Scope(t) = "user"
  /\ allowed \in Seq(Ages) /\ blind \in 0 .. Window

\* base.py:175, .env.example:59: in any window a client is allowed its rate by each
\* process, and more only if a process lost its history (it was replaced, its cache was
\* full) or two threads of one process wrote over each other's history.
AllowedWithinRate == blind = 0 => Len(allowed) <= Budget

Asks == \E t \in Threads : Lookup(t) /\ Scope(t) = Limit
Passes == \E t \in Threads : Lookup(t) /\ Scope(t) = Limit /\ req'[t].at = "store"

\* A client that keeps asking is let pass again and again: a refused request does not
\* prolong the refusal (DRF's throttle_failure, base.py:171).
RefusalsEnd == []<><<Asks>>_vars => []<><<Passes>>_vars
=============================================================================
