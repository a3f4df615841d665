------------------------- MODULE EngineTimers_proofs -------------------------
(***************************************************************************)
(* The inductive invariant of EngineTimers, and what follows from it.      *)
(*                                                                         *)
(* Types bounds every variable.  Stages says which of crash_msg,           *)
(* EngineDeactivated and the two activated_states may be there at each     *)
(* point of on_timer and of a reset.  Tables says what the timers of a     *)
(* plugin will be once its requests are taken: what the plugin wants.      *)
(* OnTime says how old each entry of the wheel will be when its tick       *)
(* comes: this sum stays the same while time passes, ticks are missed and  *)
(* the wheel skips, so that the age at which an entry elapses is bounded.  *)
(*                                                                         *)
(* The requests of a plugin are applied one by one by recursive functions: *)
(* KnownSteps and AppliedSteps are their graphs, and what holds after all  *)
(* requests is proved by induction on the number of those applied.         *)
(***************************************************************************)
EXTENDS EngineTimers, Induction

\* What must hold of a table of timers.
TableTypes(t) ==
  /\ t.entries \subseteq Plugins \X Ids
  /\ {MainIdle, Garbage} \subseteq DOMAIN t.wheel /\ DOMAIN t.wheel \subseteq Keys
  /\ DOMAIN t.age = DOMAIN t.wheel
  /\ \A k \in DOMAIN t.wheel : t.wheel[k] \in 1..Interval(k) /\ t.age[k] \in Nat

\* How old an entry will be when the tick comes at which it elapses.
Due(t, k, l) == t.age[k] + l + t.wheel[k] - 1

\* No entry will be later than a main idle interval, and no timer of a plugin early.
NotLate(t, l) == \A k \in DOMAIN t.wheel : Due(t, k, l) <= Interval(k) + IdleInterval

NotEarly(t, l) ==
  \A k \in DOMAIN t.wheel : IsPluginKey(k) => Due(t, k, l) >= Interval(k)

\* The entries and the wheel of t have these timers of p.
Names(t, p, ids) == IdsOf(p, t.entries) = ids /\ IdsOf(p, DOMAIN t.wheel) = ids

Request == [id : Ids, register : BOOLEAN]
PluginHost == [processor : {"none", "running", "dropping", "dropped"}, removed : BOOLEAN,
               known : SUBSET Ids]
After == [to : {"free", "loop"}, crash : BOOLEAN]
Batch == [plugin : Plugins, timers : BOOLEAN, taken : BOOLEAN]

\* The values of the variables, without those of the tables of timers.
Types ==
  /\ lag \in -MaxLate..IdleInterval
  /\ DOMAIN elapsed \subseteq Keys
  /\ engine \in BOOLEAN /\ crashMsg \in BOOLEAN /\ app \in BOOLEAN /\ told \in BOOLEAN
  /\ recompile \in BOOLEAN
  /\ DOMAIN pool \subseteq Plugins
  /\ \A p \in DOMAIN pool : pool[p] \in PluginHost
  /\ unused \subseteq Plugins /\ todo \subseteq Plugins
  /\ requests \in [Plugins -> Seq(Request)]
  /\ flag \subseteq Plugins
  /\ nextId \in [Plugins -> 0..MaxTimers]
  /\ wants \in [Plugins -> SUBSET Ids]
  /\ \A p \in Plugins : wants[p] \subseteq 0..nextId[p] - 1
  /\ stage \in {"free", "loop", "idle", "compile", "reset"}
  /\ after \in After \cup {None} /\ (after = None) = (stage \notin {"compile", "reset"})
  /\ batch \in Batch \cup {None}

\* What may be there at each stage.  The wheel is ahead of the clock while the plugins
\* of an active engine are called.
Stages ==
  /\ stage = "free" => elapsed = <<>> /\ ~told
  /\ after # None /\ after.to = "free" => elapsed = <<>> /\ ~told
  /\ stage \in {"idle", "compile"} => engine
  /\ stage = "reset" => app /\ ~engine /\ ~told /\ ~crashMsg
  /\ stage = "idle" => lag >= 1 /\ todo \subseteq DOMAIN pool
  /\ stage = "loop" /\ engine => lag >= 1
  /\ stage = "compile" /\ after.to = "loop" => lag >= 1
  /\ batch # None => stage \in {"idle", "reset"} /\ batch.plugin \in DOMAIN pool
  /\ engine => app
  /\ crashMsg \/ told => app /\ ~engine
  /\ ~(crashMsg /\ told)
  /\ app /\ ~engine => crashMsg \/ told \/ stage = "reset"

\* Plugins and their timers; a plugin that was not added has none and asked for none.
Tables ==
  /\ \A p \in unused :
       requests[p] = <<>> /\ wants[p] = {} /\ Names(Table, p, {}) /\ p \notin DOMAIN pool
  /\ \A p \in DOMAIN pool :
       /\ Known(pool[p].known, requests[p]) = wants[p]
       /\ ~pool[p].removed => Names(Table, p, pool[p].known)
       /\ requests[p] # <<>> =>
            \/ p \in flag
            \/ batch # None /\ batch.plugin = p /\ batch.timers /\ ~batch.taken

\* During a reset timers may be registered when the clock is past the wheel: they go with
\* the wheel when the reset ends.
OnTime ==
  /\ TableTypes(Table)
  /\ NotLate(Table, lag)
  /\ stage # "reset" => NotEarly(Table, lag)
  /\ TimersAreOnTime

----------------------------------------------------------------------------
\* The keys of the engine are not those of plugins, and every period is a positive number.
LEMMA KeyFacts ==
  /\ MainIdle # Garbage
  /\ \A p \in Plugins, id \in Ids : Key(p, id) \notin {MainIdle, Garbage}
  /\ IdleInterval \in Nat \ {0} /\ GarbageInterval \in Nat \ {0} /\ Period \in Nat \ {0}
  /\ MaxLate \in Nat /\ MaxTimers \in Nat /\ GarbageInterval >= IdleInterval
  /\ \A k \in Keys : Interval(k) \in Nat \ {0}
  /\ Interval(MainIdle) = IdleInterval /\ Interval(Garbage) = GarbageInterval
<1>1. \A p \in Plugins, id \in Ids : Key(p, id) \in Plugins \X Nat
  BY TimerAssumption DEF Key, Ids
<1>2. QED
  BY <1>1, TimerAssumption DEF Interval, Keys

\* A registered timer is due in a whole period of its plugin; it is one of its timers
\* from then on, and no other plugin's timers change.  It is not early only when the next
\* tick is still to come, which is so when the engine is active and on_timer runs.
LEMMA RegisterKeeps ==
  ASSUME NEW t, NEW p \in Plugins, NEW id \in Ids, TableTypes(t),
         NEW l \in Int, l <= IdleInterval, NotLate(t, l)
  PROVE  /\ TableTypes(Register(t, Key(p, id))) /\ NotLate(Register(t, Key(p, id)), l)
         /\ l >= 1 /\ NotEarly(t, l) => NotEarly(Register(t, Key(p, id)), l)
         /\ \A ids : Names(t, p, ids) => Names(Register(t, Key(p, id)), p, ids \cup {id})
         /\ \A q \in Plugins : \A ids :
              q # p /\ Names(t, q, ids) => Names(Register(t, Key(p, id)), q, ids)
<1> DEFINE k == Key(p, id)
           u == Register(t, k)
<1>1. /\ u.entries = t.entries \cup {k}
      /\ DOMAIN u.wheel = DOMAIN t.wheel \cup {k} /\ DOMAIN u.age = DOMAIN t.age \cup {k}
      /\ \A j \in DOMAIN u.wheel : u.wheel[j] = IF j = k THEN Interval(k) ELSE t.wheel[j]
      /\ \A j \in DOMAIN u.age : u.age[j] = IF j = k THEN 0 ELSE t.age[j]
  BY DEF Register, Put
<1>2. k \in Plugins \X Ids /\ k \in Keys /\ Interval(k) \in Nat \ {0} /\ IdleInterval \in Nat
  BY KeyFacts DEF Key, Keys
<1>3. \A q \in Plugins, i \in Ids : Key(q, i) = k <=> q = p /\ i = id
  BY DEF Key
<1> HIDE DEF k, u
<1>4. TableTypes(u)
  BY <1>1, <1>2 DEF TableTypes
<1>5. NotLate(u, l)
  BY <1>1, <1>2 DEF TableTypes, NotLate, Due
<1>6. l >= 1 /\ NotEarly(t, l) => NotEarly(u, l)
  BY <1>1, <1>2 DEF TableTypes, NotEarly, Due
<1>7. \A ids : Names(t, p, ids) => Names(u, p, ids \cup {id})
  BY <1>1, <1>3 DEF Names, IdsOf, Ids
<1>8. \A q \in Plugins : \A ids : q # p /\ Names(t, q, ids) => Names(u, q, ids)
  BY <1>1, <1>3 DEF Names, IdsOf, Ids
<1>9. QED
  BY <1>4, <1>5, <1>6, <1>7, <1>8 DEF k, u

\* Taking entries out leaves the others as they are.
LEMMA UnregisterKeeps ==
  ASSUME NEW t, NEW K, TableTypes(t), NEW l \in Int, NotLate(t, l)
  PROVE  /\ TableTypes(Unregister(t, K)) /\ NotLate(Unregister(t, K), l)
         /\ NotEarly(t, l) => NotEarly(Unregister(t, K), l)
         /\ \A q \in Plugins : \A ids :
              Names(t, q, ids) => Names(Unregister(t, K), q, ids \ IdsOf(q, K))
<1> DEFINE u == Unregister(t, K)
<1>1. /\ u.entries = t.entries \ K
      /\ DOMAIN u.wheel = DOMAIN t.wheel \ (K \cap t.entries)
      /\ DOMAIN u.age = DOMAIN t.age \ (K \cap t.entries)
      /\ \A j \in DOMAIN u.wheel : u.wheel[j] = t.wheel[j]
      /\ \A j \in DOMAIN u.age : u.age[j] = t.age[j]
  BY DEF Unregister, Drop
<1> HIDE DEF u
<1>2. TableTypes(u)
  <2>1. MainIdle \notin t.entries /\ Garbage \notin t.entries
    BY KeyFacts DEF TableTypes, Key
  <2>2. QED
    BY <1>1, <2>1 DEF TableTypes
<1>3. NotLate(u, l)
  BY <1>1 DEF TableTypes, NotLate, Due
<1>4. NotEarly(t, l) => NotEarly(u, l)
  BY <1>1 DEF TableTypes, NotEarly, Due
<1>5. ASSUME NEW q \in Plugins, NEW ids, Names(t, q, ids)
      PROVE  Names(u, q, ids \ IdsOf(q, K))
  <2>1. \A i \in Ids : (i \in ids <=> Key(q, i) \in t.entries)
                       /\ (i \in ids <=> Key(q, i) \in DOMAIN t.wheel)
    BY <1>5 DEF Names, IdsOf, Ids
  <2>2. ids \subseteq Ids
    BY <1>5 DEF Names, IdsOf, Ids
  <2>3. QED
    BY <1>1, <2>1, <2>2 DEF Names, IdsOf, Ids
<1>6. QED
  BY <1>2, <1>3, <1>4, <1>5 DEF u

\* The same for the one timer of a request.
LEMMA UnregisterOne ==
  ASSUME NEW t, NEW p \in Plugins, NEW id \in Ids, TableTypes(t),
         NEW l \in Int, NotLate(t, l)
  PROVE  /\ TableTypes(Unregister(t, {Key(p, id)})) /\ NotLate(Unregister(t, {Key(p, id)}), l)
         /\ NotEarly(t, l) => NotEarly(Unregister(t, {Key(p, id)}), l)
         /\ \A ids : Names(t, p, ids) => Names(Unregister(t, {Key(p, id)}), p, ids \ {id})
         /\ \A q \in Plugins : \A ids :
              q # p /\ Names(t, q, ids) => Names(Unregister(t, {Key(p, id)}), q, ids)
<1> DEFINE K == {Key(p, id)}
<1>1. IdsOf(p, K) = {id} /\ \A q \in Plugins : q # p => IdsOf(q, K) = {}
  BY DEF IdsOf, Key, Ids
<1> HIDE DEF K
<1>2. /\ TableTypes(Unregister(t, K)) /\ NotLate(Unregister(t, K), l)
      /\ NotEarly(t, l) => NotEarly(Unregister(t, K), l)
      /\ \A q \in Plugins : \A ids :
           Names(t, q, ids) => Names(Unregister(t, K), q, ids \ IdsOf(q, K))
  BY UnregisterKeeps
<1>3. \A ids : ids \ {} = ids
  OBVIOUS
<1>4. \A ids : Names(t, p, ids) => Names(Unregister(t, K), p, ids \ {id})
  BY <1>1, <1>2
<1>5. ASSUME NEW q \in Plugins, NEW ids, q # p, Names(t, q, ids)
      PROVE  Names(Unregister(t, K), q, ids)
  <2>1. Names(Unregister(t, K), q, ids \ {})
    BY <1>1, <1>2, <1>5
  <2>2. QED
    BY <1>3, <2>1
<1>6. QED
  BY <1>2, <1>4, <1>5 DEF K

----------------------------------------------------------------------------
\* f is the recursive function of Known, for the first n requests.
IsKnown(f, ids, reqs, n) ==
  f = [i \in 0..n |->
        IF i = 0 THEN ids
        ELSE IF reqs[i].register THEN f[i - 1] \cup {reqs[i].id}
        ELSE f[i - 1] \ {reqs[i].id}]

\* Recursion over the requests defines a function: by induction on their number.
LEMMA KnownExists ==
  ASSUME NEW ids, NEW reqs, NEW n \in Nat
  PROVE  \E f : IsKnown(f, ids, reqs, n)
<1> DEFINE S == {m \in Nat : \E f : IsKnown(f, ids, reqs, m)}
<1>1. 0 \in S
  <2>1. IsKnown([i \in 0..0 |-> ids], ids, reqs, 0)
    BY DEF IsKnown
  <2>2. QED
    BY <2>1
<1>2. ASSUME NEW m \in Nat, m \in S PROVE m + 1 \in S
  <2>1. PICK f : IsKnown(f, ids, reqs, m)
    BY <1>2
  <2> DEFINE next == IF reqs[m + 1].register THEN f[m] \cup {reqs[m + 1].id}
                     ELSE f[m] \ {reqs[m + 1].id}
             g == [i \in 0..m + 1 |-> IF i = m + 1 THEN next ELSE f[i]]
  <2>2. \A i \in 0..m : f[i] = IF i = 0 THEN ids
                               ELSE IF reqs[i].register THEN f[i - 1] \cup {reqs[i].id}
                               ELSE f[i - 1] \ {reqs[i].id}
    BY <2>1 DEF IsKnown
  <2>3. /\ DOMAIN g = 0..m + 1 /\ g[m + 1] = next
        /\ \A i \in 0..m : g[i] = f[i]
    OBVIOUS
  <2> HIDE DEF g
  <2>4. \A i \in 0..m + 1 : g[i] = IF i = 0 THEN ids
                               ELSE IF reqs[i].register THEN g[i - 1] \cup {reqs[i].id}
                               ELSE g[i - 1] \ {reqs[i].id}
    <3>1. ASSUME NEW i \in 0..m + 1
          PROVE  g[i] = IF i = 0 THEN ids
                        ELSE IF reqs[i].register THEN g[i - 1] \cup {reqs[i].id}
                        ELSE g[i - 1] \ {reqs[i].id}
      <4>1. CASE i = m + 1
        <5>1. i # 0 /\ i - 1 = m /\ g[i - 1] = f[m]
          BY <2>3, <4>1
        <5>2. QED
          BY <2>3, <4>1, <5>1
      <4>2. CASE i = 0
        <5>1. 0 \in 0..m
          OBVIOUS
        <5>3. f[0] = ids
          BY <2>2, <5>1
        <5>2. QED
          BY <2>3, <4>2, <5>1, <5>3
      <4>3. CASE i \in 1..m
        <5>1. g[i] = f[i] /\ g[i - 1] = f[i - 1] /\ i \in 0..m /\ i # 0
          BY <2>3, <4>3
        <5>2. QED
          BY <2>2, <5>1
      <4>4. QED
        BY <4>1, <4>2, <4>3
    <3>2. QED
      BY <3>1
  <2>5. IsKnown(g, ids, reqs, m + 1)
    <3>1. g = [i \in 0..m + 1 |-> g[i]]
      BY DEF g
    <3>2. QED
      BY <2>3, <2>4, <3>1 DEF IsKnown
  <2>6. QED
    BY <2>5
<1>3. QED
  <2> HIDE DEF S
  <2>1. Nat \subseteq S
    BY <1>1, <1>2, NatSetInduction
  <2>2. QED
    BY <2>1 DEF S

\* f says what is known after each request.
KnownSteps(f, ids, reqs, n) ==
  /\ f[0] = ids
  /\ \A i \in 0..n - 1 :
       f[i + 1] = IF reqs[i + 1].register THEN f[i] \cup {reqs[i + 1].id}
                  ELSE f[i] \ {reqs[i + 1].id}

\* Known is the last value of the function that takes the requests one by one.
LEMMA KnownTrace ==
  ASSUME NEW ids, NEW reqs, Len(reqs) \in Nat
  PROVE  \E f : KnownSteps(f, ids, reqs, Len(reqs)) /\ Known(ids, reqs) = f[Len(reqs)]
<1> DEFINE f == CHOOSE f : IsKnown(f, ids, reqs, Len(reqs))
<1>1. IsKnown(f, ids, reqs, Len(reqs))
  BY KnownExists
<1>2. Known(ids, reqs) = f[Len(reqs)]
  BY DEF Known, IsKnown
<1> HIDE DEF f
<1>3. f[0] = ids
  BY <1>1 DEF IsKnown
<1>4. ASSUME NEW i \in 0..Len(reqs) - 1
      PROVE  f[i + 1] = IF reqs[i + 1].register THEN f[i] \cup {reqs[i + 1].id}
                        ELSE f[i] \ {reqs[i + 1].id}
  <2> DEFINE j == i + 1
  <2>1. j \in 0..Len(reqs) /\ j # 0 /\ j - 1 = i
    OBVIOUS
  <2> HIDE DEF j
  <2>2. f[j] = IF reqs[j].register THEN f[j - 1] \cup {reqs[j].id}
               ELSE f[j - 1] \ {reqs[j].id}
    BY <1>1, <2>1 DEF IsKnown
  <2>3. f[j] = IF reqs[j].register THEN f[i] \cup {reqs[j].id} ELSE f[i] \ {reqs[j].id}
    BY <2>1, <2>2
  <2>4. QED
    BY <2>3 DEF j
<1>5. QED
  BY <1>2, <1>3, <1>4 DEF KnownSteps

\* A plugin without requests keeps its timers.
LEMMA KnownEmpty ==
  ASSUME NEW ids
  PROVE  Known(ids, <<>>) = ids
<1>1. Len(<<>>) = 0
  OBVIOUS
<1>2. QED
  BY <1>1, KnownTrace DEF KnownSteps

\* One more request comes after the others.
LEMMA KnownAppend ==
  ASSUME NEW ids, NEW reqs \in Seq(Request), NEW r \in Request
  PROVE  Known(ids, Append(reqs, r)) =
           IF r.register THEN Known(ids, reqs) \cup {r.id} ELSE Known(ids, reqs) \ {r.id}
<1> DEFINE n == Len(reqs)
           more == Append(reqs, r)
<1>1. /\ n \in Nat /\ Len(more) = n + 1 /\ more[n + 1] = r
      /\ \A i \in 1..n : more[i] = reqs[i]
  OBVIOUS
<1> HIDE DEF more
<1>2. PICK f : KnownSteps(f, ids, reqs, n) /\ Known(ids, reqs) = f[n]
  BY <1>1, KnownTrace
<1>3. PICK g : KnownSteps(g, ids, more, n + 1) /\ Known(ids, more) = g[n + 1]
  <2>1. Len(more) \in Nat
    BY <1>1
  <2>2. QED
    BY <1>1, <2>1, KnownTrace
<1> HIDE DEF n
<1>4. g[n] = f[n]
  <2> DEFINE S == {i \in 0..n : g[i] = f[i]}
  <2>1. 0 \in S
    BY <1>1, <1>2, <1>3 DEF KnownSteps
  <2>2. ASSUME NEW i \in 0..n - 1, i \in S
        PROVE  i + 1 \in S
    <3>1. i + 1 \in 1..n /\ i + 1 \in 1..n + 1 /\ i + 1 \in 0..n /\ i + 1 - 1 = i
      BY <1>1
    <3>2. more[i + 1] = reqs[i + 1] /\ g[i] = f[i]
      BY <1>1, <2>2, <3>1
    <3>3. /\ f[i + 1] = IF reqs[i + 1].register THEN f[i] \cup {reqs[i + 1].id}
                        ELSE f[i] \ {reqs[i + 1].id}
          /\ g[i + 1] = IF more[i + 1].register THEN g[i] \cup {more[i + 1].id}
                        ELSE g[i] \ {more[i + 1].id}
      <4>1. i \in 0..n - 1 /\ i \in 0..(n + 1) - 1
        BY <1>1
      <4>2. QED
        BY <1>2, <1>3, <4>1 DEF KnownSteps
    <3>5. g[i + 1] = f[i + 1]
      BY <3>2, <3>3
    <3>4. QED
      BY <3>1, <3>5
  <2> HIDE DEF S
  <2>3. 0..n \subseteq S
    BY <1>1, <2>1, <2>2, UpToInduction
  <2>4. QED
    BY <1>1, <2>3 DEF S
<1>5. n \in 0..(n + 1) - 1
  BY <1>1
<1>6. QED
  BY <1>1, <1>2, <1>3, <1>4, <1>5 DEF more, KnownSteps

\* Only ids that were asked for are added.
LEMMA KnownTypes ==
  ASSUME NEW ids \in SUBSET Ids, NEW reqs \in Seq(Request)
  PROVE  Known(ids, reqs) \in SUBSET Ids
<1> DEFINE n == Len(reqs)
<1>1. n \in Nat /\ \A i \in 1..n : reqs[i] \in Request
  OBVIOUS
<1>2. PICK f : KnownSteps(f, ids, reqs, n) /\ Known(ids, reqs) = f[n]
  BY <1>1, KnownTrace
<1> HIDE DEF n
<1> DEFINE S == {i \in 0..n : f[i] \in SUBSET Ids}
<1>3. 0 \in S
  BY <1>1, <1>2 DEF KnownSteps
<1>4. ASSUME NEW i \in 0..n - 1, i \in S
      PROVE  i + 1 \in S
  <2>1. i + 1 \in 1..n /\ i + 1 \in 0..n /\ i + 1 - 1 = i /\ reqs[i + 1] \in Request
    BY <1>1
  <2>2. f[i + 1] = IF reqs[i + 1].register THEN f[i] \cup {reqs[i + 1].id}
                   ELSE f[i] \ {reqs[i + 1].id}
    BY <1>2, <2>1 DEF KnownSteps
  <2>3. f[i + 1] \in SUBSET Ids
    BY <1>4, <2>1, <2>2 DEF Request
  <2>4. QED
    BY <2>1, <2>3
<1> HIDE DEF S
<1>5. 0..n \subseteq S
  BY <1>1, <1>3, <1>4, UpToInduction
<1>6. QED
  BY <1>1, <1>2, <1>5 DEF S

----------------------------------------------------------------------------
\* f is the recursive function of Applied, for the first n requests.
IsApplied(f, t, p, reqs, n) ==
  f = [i \in 0..n |->
        IF i = 0 THEN t
        ELSE IF reqs[i].register THEN Register(f[i - 1], Key(p, reqs[i].id))
        ELSE Unregister(f[i - 1], {Key(p, reqs[i].id)})]

\* The same for the tables.
LEMMA AppliedExists ==
  ASSUME NEW t, NEW p, NEW reqs, NEW n \in Nat
  PROVE  \E f : IsApplied(f, t, p, reqs, n)
<1> DEFINE S == {m \in Nat : \E f : IsApplied(f, t, p, reqs, m)}
<1>1. 0 \in S
  <2>1. IsApplied([i \in 0..0 |-> t], t, p, reqs, 0)
    BY DEF IsApplied
  <2>2. QED
    BY <2>1
<1>2. ASSUME NEW m \in Nat, m \in S PROVE m + 1 \in S
  <2>1. PICK f : IsApplied(f, t, p, reqs, m)
    BY <1>2
  <2> DEFINE step(i, x) == IF reqs[i].register THEN Register(x, Key(p, reqs[i].id))
                           ELSE Unregister(x, {Key(p, reqs[i].id)})
             g == [i \in 0..m + 1 |-> IF i = m + 1 THEN step(m + 1, f[m]) ELSE f[i]]
  <2>2. \A i \in 0..m : f[i] = IF i = 0 THEN t ELSE step(i, f[i - 1])
    BY <2>1 DEF IsApplied
  <2> HIDE DEF step
  <2>3. /\ DOMAIN g = 0..m + 1 /\ g[m + 1] = step(m + 1, f[m])
        /\ \A i \in 0..m : g[i] = f[i]
    OBVIOUS
  <2> HIDE DEF g
  <2>4. ASSUME NEW i \in 0..m + 1
        PROVE  g[i] = IF i = 0 THEN t ELSE step(i, g[i - 1])
    <3>1. CASE i = m + 1
      <4>1. i # 0 /\ i - 1 = m /\ g[i - 1] = f[m]
        BY <2>3, <3>1
      <4>2. QED
        BY <2>3, <3>1, <4>1
    <3>2. CASE i = 0
      <4>1. 0 \in 0..m /\ f[0] = t
        BY <2>2
      <4>2. QED
        BY <2>3, <3>2, <4>1
    <3>3. CASE i \in 1..m
      <4>1. g[i] = f[i] /\ g[i - 1] = f[i - 1] /\ i \in 0..m /\ i # 0
        BY <2>3, <3>3
      <4>2. QED
        BY <2>2, <4>1
    <3>4. QED
      BY <3>1, <3>2, <3>3
  <2>5. IsApplied(g, t, p, reqs, m + 1)
    <3>1. g = [i \in 0..m + 1 |-> g[i]]
      BY DEF g
    <3>2. QED
      BY <2>3, <2>4, <3>1 DEF IsApplied, step
  <2>6. QED
    BY <2>5
<1>3. QED
  <2> HIDE DEF S
  <2>1. Nat \subseteq S
    BY <1>1, <1>2, NatSetInduction
  <2>2. QED
    BY <2>1 DEF S

\* f says what the table is after each request.
AppliedSteps(f, t, p, reqs, n) ==
  /\ f[0] = t
  /\ \A i \in 0..n - 1 :
       f[i + 1] = IF reqs[i + 1].register THEN Register(f[i], Key(p, reqs[i + 1].id))
                  ELSE Unregister(f[i], {Key(p, reqs[i + 1].id)})

\* Applied is the last table.
LEMMA AppliedTrace ==
  ASSUME NEW t, NEW p, NEW reqs, Len(reqs) \in Nat
  PROVE  \E f : /\ AppliedSteps(f, t, p, reqs, Len(reqs))
                /\ Applied(t, p, reqs) = f[Len(reqs)]
<1> DEFINE f == CHOOSE f : IsApplied(f, t, p, reqs, Len(reqs))
<1>1. IsApplied(f, t, p, reqs, Len(reqs))
  BY AppliedExists
<1>2. Applied(t, p, reqs) = f[Len(reqs)]
  BY DEF Applied, IsApplied
<1> HIDE DEF f
<1>3. f[0] = t
  BY <1>1 DEF IsApplied
<1>4. ASSUME NEW i \in 0..Len(reqs) - 1
      PROVE  f[i + 1] = IF reqs[i + 1].register THEN Register(f[i], Key(p, reqs[i + 1].id))
                        ELSE Unregister(f[i], {Key(p, reqs[i + 1].id)})
  <2> DEFINE j == i + 1
  <2>1. j \in 0..Len(reqs) /\ j # 0 /\ j - 1 = i
    OBVIOUS
  <2> HIDE DEF j
  <2>2. f[j] = IF reqs[j].register THEN Register(f[j - 1], Key(p, reqs[j].id))
               ELSE Unregister(f[j - 1], {Key(p, reqs[j].id)})
    BY <1>1, <2>1 DEF IsApplied
  <2>3. f[j] = IF reqs[j].register THEN Register(f[i], Key(p, reqs[j].id))
               ELSE Unregister(f[i], {Key(p, reqs[j].id)})
    BY <2>1, <2>2
  <2>4. QED
    BY <2>3 DEF j
<1>5. QED
  BY <1>2, <1>3, <1>4 DEF AppliedSteps

\* What holds of a table holds of it when requests have been applied; the timers of
\* the plugin that made them are then those it is known to have, the others' are the same.
LEMMA AppliedKeeps ==
  ASSUME NEW t, NEW p \in Plugins, NEW reqs \in Seq(Request), TableTypes(t),
         NEW l \in Int, l <= IdleInterval, NotLate(t, l)
  PROVE  /\ TableTypes(Applied(t, p, reqs)) /\ NotLate(Applied(t, p, reqs), l)
         /\ l >= 1 /\ NotEarly(t, l) => NotEarly(Applied(t, p, reqs), l)
         /\ \A ids : Names(t, p, ids) => Names(Applied(t, p, reqs), p, Known(ids, reqs))
         /\ \A q \in Plugins : \A ids :
              q # p /\ Names(t, q, ids) => Names(Applied(t, p, reqs), q, ids)
<1> DEFINE n == Len(reqs)
<1>1. n \in Nat /\ \A i \in 1..n : reqs[i].id \in Ids /\ reqs[i].register \in BOOLEAN
  <2>1. n \in Nat /\ \A i \in 1..n : reqs[i] \in Request
    OBVIOUS
  <2>2. QED
    BY <2>1 DEF Request
<1>2. PICK f : AppliedSteps(f, t, p, reqs, n) /\ Applied(t, p, reqs) = f[n]
  BY <1>1, AppliedTrace
<1> HIDE DEF n
<1> DEFINE Kept(u) == /\ TableTypes(u) /\ NotLate(u, l)
                      /\ l >= 1 /\ NotEarly(t, l) => NotEarly(u, l)
                      /\ \A q \in Plugins : \A ids :
                           q # p /\ Names(t, q, ids) => Names(u, q, ids)
<1>4. \A i \in 0..n - 1 : Kept(f[i]) => Kept(f[i + 1])
  <2>1. SUFFICES ASSUME NEW i \in 0..n - 1, Kept(f[i])
                 PROVE  Kept(f[i + 1])
    OBVIOUS
  <2>0. i + 1 \in 1..n
    BY <1>1
  <2>2. CASE reqs[i + 1].register
    <3>1. f[i + 1] = Register(f[i], Key(p, reqs[i + 1].id)) /\ reqs[i + 1].id \in Ids
      BY <2>0, <1>1, <1>2, <2>2 DEF AppliedSteps
    <3>2. QED
      BY <2>1, <3>1, RegisterKeeps
  <2>3. CASE ~reqs[i + 1].register
    <3>1. f[i + 1] = Unregister(f[i], {Key(p, reqs[i + 1].id)}) /\ reqs[i + 1].id \in Ids
      BY <2>0, <1>1, <1>2, <2>3 DEF AppliedSteps
    <3>2. QED
      BY <2>1, <3>1, UnregisterOne
  <2>4. QED
    BY <2>2, <2>3
<1>5. Kept(t)
  OBVIOUS
<1>6. ASSUME NEW ids, Names(t, p, ids)
      PROVE  Names(f[n], p, Known(ids, reqs))
  <2>1. PICK g : KnownSteps(g, ids, reqs, n) /\ Known(ids, reqs) = g[n]
    BY <1>1, KnownTrace DEF n
  <2> DEFINE S == {i \in 0..n : Kept(f[i]) /\ Names(f[i], p, g[i])}
  <2>2. 0 \in S
    BY <1>1, <1>2, <1>5, <1>6, <2>1 DEF AppliedSteps, KnownSteps
  <2>3. ASSUME NEW i \in 0..n - 1, i \in S
        PROVE  i + 1 \in S
    <3>1. i + 1 \in 1..n /\ i + 1 \in 0..n /\ i + 1 - 1 = i /\ reqs[i + 1].id \in Ids
      BY <1>1
    <3>2. Kept(f[i]) /\ Kept(f[i + 1]) /\ Names(f[i], p, g[i])
      BY <1>4, <2>3, <3>1
    <3>3. Names(f[i + 1], p, g[i + 1])
      <4>1. CASE reqs[i + 1].register
        <5>1. /\ f[i + 1] = Register(f[i], Key(p, reqs[i + 1].id))
              /\ g[i + 1] = g[i] \cup {reqs[i + 1].id}
          BY <1>2, <2>1, <3>1, <4>1 DEF AppliedSteps, KnownSteps
        <5>2. QED
          BY <3>1, <3>2, <5>1, RegisterKeeps
      <4>2. CASE ~reqs[i + 1].register
        <5>1. /\ f[i + 1] = Unregister(f[i], {Key(p, reqs[i + 1].id)})
              /\ g[i + 1] = g[i] \ {reqs[i + 1].id}
          BY <1>2, <2>1, <3>1, <4>2 DEF AppliedSteps, KnownSteps
        <5>2. QED
          BY <3>1, <3>2, <5>1, UnregisterOne
      <4>3. QED
        BY <4>1, <4>2
    <3>4. QED
      BY <3>1, <3>2, <3>3
  <2> HIDE DEF S
  <2>4. 0..n \subseteq S
    BY <1>1, <2>2, <2>3, UpToInduction
  <2>5. QED
    BY <1>1, <2>1, <2>4 DEF S
<1>7. Kept(f[n])
  <2> DEFINE S == {i \in 0..n : Kept(f[i])}
  <2>1. 0 \in S
    BY <1>1, <1>2, <1>5 DEF AppliedSteps
  <2> HIDE DEF Kept
  <2>2. ASSUME NEW i \in 0..n - 1, i \in S
        PROVE  i + 1 \in S
    <3>1. i + 1 \in 1..n /\ i + 1 \in 0..n /\ i + 1 - 1 = i
      BY <1>1
    <3>2. QED
      BY <1>4, <2>2, <3>1
  <2> HIDE DEF S
  <2>3. 0..n \subseteq S
    BY <1>1, <2>1, <2>2, UpToInduction
  <2>4. QED
    BY <1>1, <2>3 DEF S
<1>8. QED
  BY <1>2, <1>6, <1>7
----------------------------------------------------------------------------
\* The inductive invariant.
IndInv == Types /\ Stages /\ Tables /\ OnTime

\* The engine starts with its own two timers and no plugin.
LEMMA InitInd == Init => IndInv
<1> SUFFICES ASSUME Init PROVE IndInv
  OBVIOUS
<1> USE KeyFacts DEF Init
<1>0. DOMAIN <<>> = {}
  OBVIOUS
<1>1. Types
  <2>1. lag \in -MaxLate..IdleInterval
    OBVIOUS
  <2>2. DOMAIN elapsed = {} /\ DOMAIN pool = {}
    BY <1>0
  <2>3. requests \in [Plugins -> Seq(Request)] /\ wants \in [Plugins -> SUBSET Ids]
    OBVIOUS
  <2>4. nextId \in [Plugins -> 0..MaxTimers]
    OBVIOUS
  <2>5. \A p \in Plugins : wants[p] \subseteq 0..nextId[p] - 1
    OBVIOUS
  <2>6. after = None /\ batch = None /\ stage = "free" /\ todo = {} /\ flag = {}
        /\ unused = Plugins
        /\ engine = FALSE /\ crashMsg = FALSE /\ app = FALSE /\ told = FALSE
        /\ recompile = FALSE
    OBVIOUS
  <2> HIDE DEF Init
  <2>7. QED
    BY <2>1, <2>2, <2>3, <2>4, <2>5, <2>6 DEF Types
<1>2. Stages
  BY DEF Stages
<1>3. Tables
  <2>1. DOMAIN pool = {} /\ entries = {} /\ DOMAIN wheel = {MainIdle, Garbage}
    BY <1>0 DEF NewWheel
  <2>2. \A p \in Plugins : requests[p] = <<>> /\ wants[p] = {}
    OBVIOUS
  <2>3. ASSUME NEW p \in Plugins
        PROVE  Names(Table, p, {})
    BY <2>1 DEF Names, IdsOf, Table, Ids
  <2> HIDE DEF Init
  <2>4. unused \subseteq Plugins
    BY DEF Init
  <2>5. QED
    BY <2>1, <2>2, <2>3, <2>4 DEF Tables
<1>4. TableTypes(Table)
  BY DEF TableTypes, Table, NewWheel, Keys
<1>5. OnTime
  BY <1>4 DEF OnTime, NotLate, NotEarly, Due, TimersAreOnTime, Table, NewWheel, IsPluginKey,
             TableTypes
<1>6. QED
  BY <1>1, <1>2, <1>3, <1>5 DEF IndInv

\* What holds of a table that is assigned holds in the next state.
LEMMA SetTableKeeps ==
  ASSUME NEW t, SetTable(t)
  PROVE  /\ TableTypes(t) => TableTypes(Table')
         /\ \A l : NotLate(t, l) => NotLate(Table', l)
         /\ \A l : NotEarly(t, l) => NotEarly(Table', l)
         /\ \A q, ids : Names(t, q, ids) => Names(Table', q, ids)
BY DEF SetTable, Table, TableTypes, NotLate, NotEarly, Due, Names

\* A host's tables when it has taken the requests of its plugin.
LEMMA TakeKeeps ==
  ASSUME IndInv, NEW p \in DOMAIN pool, TakeRequests(p)
  PROVE  /\ TableTypes(Table') /\ NotLate(Table', lag)
         /\ lag >= 1 /\ NotEarly(Table, lag) => NotEarly(Table', lag)
         /\ \A ids : Names(Table, p, ids) => Names(Table', p, Known(ids, requests[p]))
         /\ \A q \in Plugins : \A ids :
              q # p /\ Names(Table, q, ids) => Names(Table', q, ids)
<1> DEFINE u == Applied(Table, p, requests[p])
<1>1. p \in Plugins /\ requests[p] \in Seq(Request)
  BY DEF IndInv, Types
<1>2. lag \in Int /\ lag <= IdleInterval /\ TableTypes(Table) /\ NotLate(Table, lag)
  BY KeyFacts DEF IndInv, Types, OnTime
<1>3. /\ TableTypes(u) /\ NotLate(u, lag)
      /\ lag >= 1 /\ NotEarly(Table, lag) => NotEarly(u, lag)
      /\ \A ids : Names(Table, p, ids) => Names(u, p, Known(ids, requests[p]))
      /\ \A q \in Plugins : \A ids :
           q # p /\ Names(Table, q, ids) => Names(u, q, ids)
  BY <1>1, <1>2, AppliedKeeps
<1>4. SetTable(u)
  BY DEF TakeRequests
<1> HIDE DEF u
<1>5. QED
  BY <1>3, <1>4, SetTableKeeps

\* What schedule_remove leaves of the tables.
LEMMA RemoveKeeps ==
  ASSUME IndInv, NEW ps \in SUBSET Plugins, ScheduleRemove(ps)
  PROVE  /\ TableTypes(Table') /\ NotLate(Table', lag)
         /\ NotEarly(Table, lag) => NotEarly(Table', lag)
         /\ \A q \in Plugins \ ps : \A ids : Names(Table, q, ids) => Names(Table', q, ids)
<1> DEFINE K == KeysOf(ps)
           u == Unregister(Table, K)
<1>1. lag \in Int /\ TableTypes(Table) /\ NotLate(Table, lag)
  BY KeyFacts DEF IndInv, Types, OnTime
<1>2. \A q \in Plugins \ ps : IdsOf(q, K) = {}
  BY DEF IdsOf, KeysOf, Key
<1> HIDE DEF K
<1>3. /\ TableTypes(u) /\ NotLate(u, lag)
      /\ NotEarly(Table, lag) => NotEarly(u, lag)
      /\ \A q \in Plugins : \A ids : Names(Table, q, ids) => Names(u, q, ids \ IdsOf(q, K))
  BY <1>1, UnregisterKeeps
<1>4. \A ids : ids \ {} = ids
  OBVIOUS
<1>5. ASSUME NEW q \in Plugins \ ps, NEW ids, Names(Table, q, ids)
      PROVE  Names(u, q, ids)
  <2>1. Names(u, q, ids \ {})
    BY <1>2, <1>3, <1>5
  <2>2. QED
    BY <1>4, <2>1
<1>6. SetTable(u)
  BY DEF ScheduleRemove, K
<1> HIDE DEF u
<1>7. QED
  BY <1>3, <1>5, <1>6, SetTableKeeps

\* What TakeRequests assigns besides.
LEMMA TakeTypes ==
  ASSUME IndInv, NEW p \in DOMAIN pool, TakeRequests(p)
  PROVE  /\ DOMAIN pool' = DOMAIN pool
         /\ pool'[p] = [pool[p] EXCEPT !.known = Known(pool[p].known, requests[p])]
         /\ \A q \in DOMAIN pool : q # p => pool'[q] = pool[q]
         /\ \A q \in DOMAIN pool : pool'[q] \in PluginHost
         /\ requests' \in [Plugins -> Seq(Request)]
         /\ requests'[p] = <<>>
         /\ \A q \in Plugins : q # p => requests'[q] = requests[q]
<1>1. p \in Plugins /\ requests[p] \in Seq(Request) /\ pool[p] \in PluginHost
      /\ requests \in [Plugins -> Seq(Request)]
      /\ \A q \in DOMAIN pool : pool[q] \in PluginHost
  BY DEF IndInv, Types
<1>2. Known(pool[p].known, requests[p]) \in SUBSET Ids
  BY <1>1, KnownTypes DEF PluginHost
<1>3. pool' = [pool EXCEPT ![p].known = Known(pool[p].known, requests[p])]
      /\ requests' = [requests EXCEPT ![p] = <<>>]
  BY DEF TakeRequests
<1>4. /\ DOMAIN pool' = DOMAIN pool
      /\ pool'[p] = [pool[p] EXCEPT !.known = Known(pool[p].known, requests[p])]
      /\ \A q \in DOMAIN pool : q # p => pool'[q] = pool[q]
  BY <1>3
<1>5. pool'[p] \in PluginHost
  BY <1>1, <1>2, <1>4 DEF PluginHost
<1>6. QED
  BY <1>1, <1>3, <1>4, <1>5

\* And what schedule_remove does.
LEMMA RemoveTypes ==
  ASSUME IndInv, NEW ps, ScheduleRemove(ps)
  PROVE  /\ DOMAIN pool' = DOMAIN pool
         /\ \A q \in DOMAIN pool :
              /\ pool'[q] \in PluginHost /\ pool'[q].known = pool[q].known
              /\ q \in ps => pool'[q].removed
              /\ q \notin ps => pool'[q] = pool[q]
<1>1. \A q \in DOMAIN pool : pool[q] \in PluginHost
  BY DEF IndInv, Types
<1>2. pool' = [p \in DOMAIN pool |->
       IF p \notin ps THEN pool[p]
       ELSE [pool[p] EXCEPT !.removed = TRUE,
               !.processor = IF pool[p].processor = "running" THEN "dropping"
                             ELSE pool[p].processor]]
  BY DEF ScheduleRemove
<1>3. QED
  BY <1>1, <1>2 DEF PluginHost

\* Types is preserved by every action.
LEMMA TypesStep == IndInv /\ Next => Types'
<1> SUFFICES ASSUME IndInv, Next PROVE Types'
  OBVIOUS
<1>0. Types /\ Stages
  BY DEF IndInv
<1>00. None \notin After /\ None \notin Batch
  BY TimerAssumption DEF After, Batch
<1> USE DEF timeVars, engineVars, pluginVars, idleVars, RequestOnly
<1>1. ASSUME ActivateEngine PROVE Types'
  BY <1>0, <1>1 DEF ActivateEngine, Types
<1>2. ASSUME NEW next \in After, BeginReset(next) PROVE Types'
  <2>1. DOMAIN pool' = DOMAIN pool /\ \A q \in DOMAIN pool : pool'[q] \in PluginHost
    BY <1>2, RemoveTypes DEF BeginReset
  <2>2. QED
    BY <1>0, <1>2, <2>1, TimerAssumption DEF BeginReset, Types, After
<1>3. ASSUME DeactivateEngine PROVE Types'
  <2>1. [to |-> "free", crash |-> FALSE] \in After
    BY DEF After
  <2>2. QED
    BY <1>2, <1>3, <2>1 DEF DeactivateEngine
<1>4. ASSUME NEW p \in Plugins, AddPlugin(p) PROVE Types'
  <2>1. /\ DOMAIN pool' = DOMAIN pool \cup {p}
        /\ \A q \in DOMAIN pool' : pool'[q] \in PluginHost
    BY <1>0, <1>4 DEF AddPlugin, Put, Types, PluginHost
  <2>2. after' \in After /\ after' # None /\ stage' = "compile" /\ unused' \subseteq Plugins
    <3>1. [to |-> "free", crash |-> FALSE] \in After
      BY DEF After
    <3>2. QED
      BY <1>0, <1>00, <1>4, <3>1 DEF AddPlugin, Types
  <2>3. UNCHANGED <<timeVars, elapsed, engineVars, pluginVars, idleVars>>
    BY <1>4 DEF AddPlugin
  <2>4. QED
    BY <1>0, <2>1, <2>2, <2>3 DEF Types
<1>5. ASSUME NEW p \in Plugins, RemovePlugin(p) PROVE Types'
  <2>1. DOMAIN pool' = DOMAIN pool /\ \A q \in DOMAIN pool : pool'[q] \in PluginHost
    BY <1>5, RemoveTypes DEF RemovePlugin
  <2>2. after' \in After /\ after' # None /\ stage' = "compile"
    <3>1. [to |-> "free", crash |-> FALSE] \in After
      BY DEF After
    <3>2. QED
      BY <1>00, <1>5, <3>1 DEF RemovePlugin
  <2>3. UNCHANGED <<lag, elapsed, engineVars, unused, pluginVars, idleVars>>
    BY <1>5 DEF RemovePlugin
  <2>4. QED
    BY <1>0, <2>1, <2>2, <2>3 DEF Types
<1>6. ASSUME NEW p \in Plugins, NEW id \in Ids, NEW register \in BOOLEAN, Ask(p, id, register)
      PROVE  requests' \in [Plugins -> Seq(Request)] /\ flag' \subseteq Plugins
  <2>1. [id |-> id, register |-> register] \in Request
    BY DEF Request
  <2>2. QED
    BY <1>0, <1>6, <2>1 DEF Ask, Types
<1>7. ASSUME NEW p \in Plugins, RegisterTimer(p) PROVE Types'
  <2>1. nextId[p] \in Ids /\ nextId[p] + 1 \in 0..MaxTimers
    BY <1>0, <1>7, KeyFacts DEF RegisterTimer, Types, Ids
  <2>2. requests' \in [Plugins -> Seq(Request)] /\ flag' \subseteq Plugins
    BY <1>6, <1>7, <2>1 DEF RegisterTimer
  <2>3. /\ nextId' \in [Plugins -> 0..MaxTimers] /\ wants' \in [Plugins -> SUBSET Ids]
        /\ \A q \in Plugins : wants'[q] \subseteq 0..nextId'[q] - 1
    <3>1. /\ nextId' = [nextId EXCEPT ![p] = @ + 1]
          /\ wants' = [wants EXCEPT ![p] = @ \cup {nextId[p]}]
          /\ nextId \in [Plugins -> 0..MaxTimers] /\ wants \in [Plugins -> SUBSET Ids]
      BY <1>0, <1>7 DEF RegisterTimer, Types
    <3>2. \A q \in Plugins : wants[q] \subseteq 0..nextId[q] - 1 /\ nextId[q] \in Nat
      BY <1>0, KeyFacts DEF Types
    <3>3. nextId' \in [Plugins -> 0..MaxTimers] /\ wants' \in [Plugins -> SUBSET Ids]
      BY <2>1, <3>1
    <3>4. wants'[p] \subseteq 0..nextId'[p] - 1
      BY <3>1, <3>2
    <3>5. QED
      BY <3>1, <3>2, <3>3, <3>4
  <2>4. UNCHANGED <<timeVars, elapsed, engineVars, pool, unused, stage, after, idleVars>>
    BY <1>7 DEF RegisterTimer
  <2>5. QED
    BY <1>0, <2>2, <2>3, <2>4 DEF Types
<1>8. ASSUME NEW p \in Plugins, UnregisterTimer(p) PROVE Types'
  <2>1. PICK id \in wants[p] :
          Ask(p, id, FALSE) /\ wants' = [wants EXCEPT ![p] = wants[p] \ {id}]
    BY <1>8 DEF UnregisterTimer
  <2>2. id \in Ids
    BY <1>0, <2>1 DEF Types
  <2>3. requests' \in [Plugins -> Seq(Request)] /\ flag' \subseteq Plugins
    BY <1>6, <2>1, <2>2
  <2>4. /\ wants' \in [Plugins -> SUBSET Ids] /\ nextId' = nextId
        /\ \A q \in Plugins : wants'[q] \subseteq 0..nextId'[q] - 1
    BY <1>0, <1>8, <2>1 DEF Types, UnregisterTimer
  <2>5. UNCHANGED <<timeVars, elapsed, engineVars, pool, unused, stage, after, idleVars>>
    BY <1>8 DEF UnregisterTimer
  <2>6. QED
    BY <1>0, <2>3, <2>4, <2>5 DEF Types
<1>9. ASSUME NEW p \in Plugins, ProcessorDrops(p) PROVE Types'
  <2>1. DOMAIN pool' = DOMAIN pool /\ \A q \in DOMAIN pool' : pool'[q] \in PluginHost
    BY <1>0, <1>9 DEF ProcessorDrops, Types, PluginHost
  <2>2. UNCHANGED <<timeVars, elapsed, engineVars, unused, pluginVars, stage, after, idleVars>>
    BY <1>9 DEF ProcessorDrops
  <2>3. QED
    BY <1>0, <2>1, <2>2 DEF Types
<1>10. ASSUME EndReset PROVE Types'
  <2>1. DOMAIN <<>> = {}
    OBVIOUS
  <2>2. after \in After
    BY <1>0, <1>10 DEF EndReset, Types
  <2>3. lag' \in -MaxLate..IdleInterval
    BY <1>0, <1>10, KeyFacts DEF EndReset, Types
  <2>4. stage' \in {"free", "loop"} /\ after' = None
        /\ crashMsg' \in BOOLEAN /\ app' \in BOOLEAN /\ pool' = <<>>
    BY <1>0, <1>10, <2>2 DEF EndReset, After, Types
  <2>5. UNCHANGED <<elapsed, engine, activations, told, unused, pluginVars, idleVars>>
    BY <1>10 DEF EndReset
  <2>6. QED
    BY <1>0, <2>1, <2>3, <2>4, <2>5 DEF Types
<1>11. ASSUME Compile PROVE Types'
  <2>1. after \in After
    BY <1>0, <1>11 DEF Compile, Types
  <2>2. CASE BeginReset([to |-> after.to, crash |-> TRUE])
    <3>1. [to |-> after.to, crash |-> TRUE] \in After
      BY <2>1 DEF After
    <3>2. QED
      BY <1>2, <2>2, <3>1
  <2>3. CASE ~BeginReset([to |-> after.to, crash |-> TRUE])
    BY <1>0, <1>11, <2>1, <2>3 DEF Compile, Types, After
  <2>4. QED
    BY <2>2, <2>3
<1>12. ASSUME Elapse PROVE Types'
  BY <1>0, <1>12, KeyFacts DEF Elapse, Types
<1>13. ASSUME BeginTimer PROVE Types'
  <2>1. lag' \in -MaxLate..IdleInterval /\ DOMAIN elapsed' \subseteq Keys
    <3>1. PICK skip \in 0..GarbageInterval :
            /\ \A k \in DOMAIN wheel :
                 skip < IF wheel[k] <= Ticks THEN Interval(k) ELSE wheel[k] - Ticks
            /\ lag' = lag + Ticks + skip
      BY <1>13 DEF BeginTimer, Advance, Skips
    <3>2. MainIdle \in DOMAIN wheel /\ wheel[MainIdle] \in 1..Interval(MainIdle)
          /\ DOMAIN wheel \subseteq Keys
      BY DEF IndInv, OnTime, TableTypes, Table
    <3>3. lag \in Int /\ Ticks = 1 - lag /\ lag <= 0
      BY <1>0, <1>13, KeyFacts DEF Types, Ticks, BeginTimer
    <3>4. skip < IdleInterval
      BY <3>1, <3>2, <3>3, KeyFacts
    <3>5. lag' = 1 + skip
      BY <3>1, <3>3
    <3>6. DOMAIN elapsed' \subseteq DOMAIN wheel
      BY <1>13 DEF BeginTimer, Advance
    <3>7. QED
      BY <3>2, <3>4, <3>5, <3>6, KeyFacts
  <2>2. stage' = "loop" /\ stage = "free" /\ told' = crashMsg /\ crashMsg' = FALSE
        /\ UNCHANGED <<engine, activations, app, pool, unused, pluginVars, after, idleVars>>
    BY <1>13 DEF BeginTimer, TakeCrash
  <2>3. QED
    BY <1>0, <2>1, <2>2 DEF Types
<1>14. ASSUME HandleMainIdle PROVE Types'
  BY <1>0, <1>14 DEF HandleMainIdle, Next1, Types, Drop
<1>15. ASSUME HandleGarbage PROVE Types'
  BY <1>0, <1>15 DEF HandleGarbage, Next1, Types, Drop
<1>16. ASSUME NEW p \in Plugins, NEW id \in Ids, HandlePluginTimer(p, id) PROVE Types'
  <2>1. DOMAIN elapsed' \subseteq Keys
    BY <1>0, <1>16 DEF HandlePluginTimer, Next1, Types, Drop
  <2>2. UNCHANGED <<lag, engineVars, unused, flag, nextId, wants, stage, after, idleVars>>
    BY <1>16 DEF HandlePluginTimer
  <2>3. /\ DOMAIN pool' = DOMAIN pool /\ \A q \in DOMAIN pool : pool'[q] \in PluginHost
        /\ requests' \in [Plugins -> Seq(Request)]
    <3>1. CASE p \in DOMAIN pool /\ TakeRequests(p)
      BY <3>1, TakeTypes
    <3>2. CASE UNCHANGED <<pool, requests>>
      BY <1>0, <3>2 DEF Types
    <3>3. QED
      BY <1>16, <3>1, <3>2 DEF HandlePluginTimer
  <2>4. QED
    BY <1>0, <2>1, <2>2, <2>3 DEF Types
<1>17. ASSUME NEW p \in Plugins, FetchRequests(p) PROVE Types'
  <2>1. batch' \in Batch /\ flag' \subseteq Plugins
    BY <1>0, <1>17 DEF FetchRequests, Batch, Types
  <2>2. UNCHANGED <<timeVars, elapsed, engineVars, pool, unused, requests, nextId, wants,
                    stage, after, todo, recompile>>
    BY <1>17 DEF FetchRequests
  <2>3. QED
    BY <1>0, <2>1, <2>2 DEF Types
<1>18. ASSUME IdleTimers PROVE Types'
  <2>1. batch \in Batch /\ batch.plugin \in DOMAIN pool
    BY <1>0, <1>18 DEF IdleTimers, Types, Stages
  <2>2. batch' \in Batch
    BY <1>18, <2>1 DEF IdleTimers, Batch
  <2>3. UNCHANGED <<lag, elapsed, engineVars, unused, flag, nextId, wants, stage, after,
                    todo, recompile>>
    BY <1>18 DEF IdleTimers
  <2>4. /\ DOMAIN pool' = DOMAIN pool /\ \A q \in DOMAIN pool : pool'[q] \in PluginHost
        /\ requests' \in [Plugins -> Seq(Request)]
    <3>1. CASE TakeRequests(batch.plugin)
      BY <2>1, <3>1, TakeTypes
    <3>2. CASE UNCHANGED <<pool, requests>>
      BY <1>0, <3>2 DEF Types
    <3>3. QED
      BY <1>18, <3>1, <3>2 DEF IdleTimers
  <2>5. QED
    BY <1>0, <2>2, <2>3, <2>4 DEF Types
<1>19. ASSUME IdleRest PROVE Types'
  <2>1. batch \in Batch /\ batch.plugin \in DOMAIN pool
    BY <1>0, <1>19 DEF IdleRest, Types, Stages
  <2>2. /\ DOMAIN pool' \subseteq Plugins /\ \A q \in DOMAIN pool' : pool'[q] \in PluginHost
        /\ recompile' \in BOOLEAN
    <3>1. CASE pool' = Drop(pool, {batch.plugin}) /\ UNCHANGED recompile
      BY <1>0, <3>1 DEF Drop, Types
    <3>2. CASE pool' = [pool EXCEPT ![batch.plugin].processor = "running"] /\ recompile' = TRUE
      BY <1>0, <2>1, <3>2 DEF Types, PluginHost
    <3>3. CASE UNCHANGED <<pool, recompile>>
      BY <1>0, <3>3 DEF Types
    <3>4. QED
      BY <1>19, <3>1, <3>2, <3>3 DEF IdleRest
  <2>3. UNCHANGED <<timeVars, elapsed, engineVars, unused, pluginVars, stage, after>>
    BY <1>19 DEF IdleRest
  <2>4. todo' \subseteq Plugins /\ batch' = None
    BY <1>0, <1>19 DEF IdleRest, Types
  <2>5. QED
    BY <1>0, <2>2, <2>3, <2>4 DEF Types
<1>20. ASSUME EndIdle PROVE Types'
  <2>1. [to |-> "loop", crash |-> FALSE] \in After
    BY DEF After
  <2>2. QED
    BY <1>0, <1>00, <1>20, <2>1 DEF EndIdle, Types
<1>21. ASSUME EndTimer PROVE Types'
  BY <1>0, <1>21 DEF EndTimer, Types
<1>22. QED
  BY <1>1, <1>3, <1>4, <1>5, <1>7, <1>8, <1>9, <1>10, <1>11, <1>12, <1>13, <1>14, <1>15,
     <1>16, <1>17, <1>18, <1>19, <1>20, <1>21
  DEF Next, App, Plugin, Loop, Idle, OnTimer, Ids

\* Stages is preserved by every action.
LEMMA StagesStep == IndInv /\ Next => Stages'
<1> SUFFICES ASSUME IndInv, Next PROVE Stages'
  OBVIOUS
<1>0. Types /\ Stages
  BY DEF IndInv
<1>00. None \notin After /\ None \notin Batch
  BY TimerAssumption DEF After, Batch
<1> USE DEF timeVars, engineVars, pluginVars, idleVars, RequestOnly
<1>1. ASSUME ActivateEngine PROVE Stages'
  BY <1>0, <1>1 DEF ActivateEngine, Stages, Types
<1>2. ASSUME NEW next \in After, BeginReset(next), app, batch = None, ~told, ~crashMsg,
             next.to = "free" => elapsed = <<>>
      PROVE  Stages'
  <2>1. /\ engine' = FALSE /\ stage' = "reset" /\ after' = next
        /\ UNCHANGED <<elapsed, crashMsg, app, told, batch>>
    BY <1>2 DEF BeginReset
  <2>2. QED
    BY <1>2, <2>1 DEF Stages
<1>3. ASSUME DeactivateEngine PROVE Stages'
  <2>1. [to |-> "free", crash |-> FALSE] \in After
    BY DEF After
  <2>2. BeginReset([to |-> "free", crash |-> FALSE]) /\ stage = "free" /\ app /\ engine
    BY <1>3 DEF DeactivateEngine
  <2>3. batch = None /\ ~told /\ ~crashMsg /\ elapsed = <<>>
    BY <1>0, <2>2 DEF Stages
  <2>4. QED
    BY <1>2, <2>1, <2>2, <2>3
<1>4. ASSUME NEW p \in Plugins, AddPlugin(p) PROVE Stages'
  BY <1>0, <1>4 DEF AddPlugin, Stages
<1>5. ASSUME NEW p \in Plugins, RemovePlugin(p) PROVE Stages'
  BY <1>0, <1>5 DEF RemovePlugin, Stages
<1>6. ASSUME NEW p \in Plugins, RegisterTimer(p) PROVE Stages'
  BY <1>0, <1>6 DEF RegisterTimer, Stages
<1>7. ASSUME NEW p \in Plugins, UnregisterTimer(p) PROVE Stages'
  BY <1>0, <1>7 DEF UnregisterTimer, Stages
<1>8. ASSUME NEW p \in Plugins, ProcessorDrops(p) PROVE Stages'
  BY <1>0, <1>8 DEF ProcessorDrops, Stages
<1>9. ASSUME EndReset PROVE Stages'
  <2>1. after \in After /\ after # None
    BY <1>0, <1>00, <1>9 DEF EndReset, Types
  <2>2. after.to \in {"free", "loop"} /\ after.crash \in BOOLEAN
    BY <2>1 DEF After
  <2>3. app /\ ~engine /\ ~told /\ ~crashMsg /\ (after.to = "free" => elapsed = <<>>)
    BY <1>0, <1>9, <2>1 DEF EndReset, Stages
  <2>4. /\ stage' = after.to /\ after' = None /\ crashMsg' = after.crash
        /\ app' = (app /\ after.crash) /\ batch = None
        /\ UNCHANGED <<elapsed, engine, told, batch>>
    BY <1>9 DEF EndReset
  <2>5. QED
    BY <2>2, <2>3, <2>4 DEF Stages
<1>10. ASSUME Compile PROVE Stages'
  <2>1. after \in After /\ after # None /\ stage = "compile"
    BY <1>0, <1>00, <1>10 DEF Compile, Types
  <2>2. /\ engine /\ app /\ batch = None /\ ~told /\ ~crashMsg
        /\ after.to = "free" => elapsed = <<>>
        /\ after.to = "loop" => lag >= 1
    BY <1>0, <2>1 DEF Stages
  <2>3. CASE BeginReset([to |-> after.to, crash |-> TRUE])
    <3>1. [to |-> after.to, crash |-> TRUE] \in After
      BY <2>1 DEF After
    <3>2. QED
      BY <1>2, <2>2, <2>3, <3>1
  <2>4. CASE ~BeginReset([to |-> after.to, crash |-> TRUE])
    <3>1. after.to \in {"free", "loop"}
      BY <2>1 DEF After
    <3>2. stage' = after.to /\ after' = None
          /\ UNCHANGED <<timeVars, elapsed, engineVars, pool, unused, pluginVars, idleVars>>
      BY <1>10, <2>4 DEF Compile
    <3>3. QED
      BY <2>2, <3>1, <3>2 DEF Stages
  <2>5. QED
    BY <2>3, <2>4
<1>11. ASSUME Elapse PROVE Stages'
  BY <1>0, <1>11 DEF Elapse, Stages, Types
<1>12. ASSUME BeginTimer PROVE Stages'
  <2>1. stage = "free" /\ stage' = "loop" /\ told' = crashMsg /\ crashMsg' = FALSE
        /\ UNCHANGED <<engine, activations, app, pool, unused, pluginVars, after, idleVars>>
    BY <1>12 DEF BeginTimer, TakeCrash
  <2>2. lag' >= 1
    <3>1. PICK skip \in 0..GarbageInterval : lag' = lag + Ticks + skip
      BY <1>12 DEF BeginTimer, Advance, Skips
    <3>2. QED
      BY <1>0, <3>1, KeyFacts DEF Types, Ticks
  <2>3. after = None /\ batch = None /\ ~told
    BY <1>0, <2>1 DEF Types, Stages
  <2>4. QED
    BY <1>0, <2>1, <2>2, <2>3 DEF Stages
<1>13. ASSUME HandleMainIdle PROVE Stages'
  <2>1. after = None /\ stage = "loop" /\ batch = None
    BY <1>0, <1>13 DEF HandleMainIdle, Next1, Types, Stages
  <2>2. QED
    BY <1>0, <1>13, <2>1 DEF HandleMainIdle, Stages
<1>14. ASSUME HandleGarbage PROVE Stages'
  <2>1. after = None /\ stage = "loop" /\ batch = None
    BY <1>0, <1>14 DEF HandleGarbage, Next1, Types, Stages
  <2>2. QED
    BY <1>0, <1>14, <2>1 DEF HandleGarbage, Stages
<1>15. ASSUME NEW p \in Plugins, NEW id \in Ids, HandlePluginTimer(p, id) PROVE Stages'
  <2>1. after = None /\ stage = "loop" /\ batch = None
    BY <1>0, <1>15 DEF HandlePluginTimer, Next1, Types, Stages
  <2>2. UNCHANGED <<lag, engineVars, unused, flag, nextId, wants, stage, after, idleVars>>
    BY <1>15 DEF HandlePluginTimer
  <2>3. QED
    BY <1>0, <2>1, <2>2 DEF Stages
<1>16. ASSUME NEW p \in Plugins, FetchRequests(p) PROVE Stages'
  <2>1. batch' = [plugin |-> p, timers |-> p \in flag, taken |-> FALSE]
        /\ stage \in {"idle", "reset"} /\ p \in DOMAIN pool
    BY <1>0, <1>16 DEF FetchRequests, Stages
  <2>2. UNCHANGED <<timeVars, elapsed, engineVars, pool, unused, requests, nextId, wants,
                    stage, after, todo, recompile>>
    BY <1>16 DEF FetchRequests
  <2>3. QED
    BY <1>0, <2>1, <2>2 DEF Stages
<1>17. ASSUME IdleTimers PROVE Stages'
  <2>1. batch \in Batch /\ batch # None /\ batch.plugin \in DOMAIN pool
        /\ stage \in {"idle", "reset"}
    BY <1>0, <1>17 DEF IdleTimers, Types, Stages
  <2>2. batch'.plugin = batch.plugin
    BY <1>17, <2>1 DEF IdleTimers, Batch
  <2>3. UNCHANGED <<lag, elapsed, engineVars, unused, flag, nextId, wants, stage, after,
                    todo, recompile>>
    BY <1>17 DEF IdleTimers
  <2>4. DOMAIN pool' = DOMAIN pool
    <3>1. CASE TakeRequests(batch.plugin)
      BY <2>1, <3>1, TakeTypes
    <3>2. CASE UNCHANGED <<pool, requests>>
      BY <3>2
    <3>3. QED
      BY <1>17, <3>1, <3>2 DEF IdleTimers
  <2>5. QED
    BY <1>0, <2>1, <2>2, <2>3, <2>4 DEF Stages
<1>18. ASSUME IdleRest PROVE Stages'
  <2>1. batch' = None /\ todo' = todo \ {batch.plugin}
        /\ UNCHANGED <<timeVars, elapsed, engineVars, unused, pluginVars, stage, after>>
    BY <1>18 DEF IdleRest
  <2>2. DOMAIN pool \ {batch.plugin} \subseteq DOMAIN pool'
    BY <1>18 DEF IdleRest, Drop
  <2>3. QED
    BY <1>0, <2>1, <2>2 DEF Stages
<1>19. ASSUME EndIdle PROVE Stages'
  <2>1. after = None /\ stage = "idle" /\ batch = None
    BY <1>0, <1>19 DEF EndIdle, Types
  <2>2. [to |-> "loop", crash |-> FALSE].to = "loop"
    OBVIOUS
  <2>3. UNCHANGED <<timeVars, elapsed, engineVars, pool, unused, pluginVars, idleVars>>
    BY <1>19 DEF EndIdle
  <2>4. CASE stage' = "compile" /\ after' = [to |-> "loop", crash |-> FALSE]
    BY <1>0, <2>1, <2>2, <2>3, <2>4 DEF Stages
  <2>5. CASE stage' = "loop" /\ UNCHANGED after
    BY <1>0, <2>1, <2>3, <2>5 DEF Stages
  <2>6. QED
    BY <1>19, <2>4, <2>5 DEF EndIdle
<1>20. ASSUME EndTimer PROVE Stages'
  <2>1. after = None /\ batch = None
    BY <1>0, <1>20 DEF EndTimer, Types, Stages
  <2>2. stage = "loop" /\ stage' = "free" /\ elapsed = <<>> /\ app' = (app /\ ~told)
        /\ told' = FALSE
        /\ UNCHANGED <<timeVars, elapsed, engine, crashMsg, activations, pool, unused,
                       pluginVars, after, idleVars>>
    BY <1>20 DEF EndTimer
  <2>3. QED
    BY <1>0, <2>1, <2>2 DEF Stages
<1>21. QED
  BY <1>1, <1>3, <1>4, <1>5, <1>6, <1>7, <1>8, <1>9, <1>10, <1>11, <1>12, <1>13, <1>14, <1>15,
     <1>16, <1>17, <1>18, <1>19, <1>20
  DEF Next, App, Plugin, Loop, Idle, OnTimer, Ids

\* Steps that leave the wheel alone and take nothing from it.
LEMMA OnTimeSame ==
  ASSUME IndInv, UNCHANGED timeVars,
         \A k \in DOMAIN elapsed' : k \in DOMAIN elapsed /\ elapsed'[k] = elapsed[k],
         stage = "reset" => stage' = "reset"
  PROVE  OnTime'
<1>1. Table' = Table /\ lag' = lag
  BY DEF timeVars, Table
<1>2. OnTime
  BY DEF IndInv
<1>3. TimersAreOnTime'
  BY <1>2 DEF OnTime, TimersAreOnTime
<1>4. QED
  BY <1>1, <1>2, <1>3 DEF OnTime

\* OnTime is preserved by every action: only BeginTimer takes entries from the wheel.
LEMMA OnTimeStep == IndInv /\ Next => OnTime'
<1> SUFFICES ASSUME IndInv, Next PROVE OnTime'
  OBVIOUS
<1>0. Types /\ Stages /\ OnTime
  BY DEF IndInv
<1>1. TableTypes(Table) /\ NotLate(Table, lag) /\ (stage # "reset" => NotEarly(Table, lag))
  BY <1>0 DEF OnTime
<1>2. lag \in -MaxLate..IdleInterval /\ lag \in Int
  BY <1>0, KeyFacts DEF Types
<1>3. ASSUME NEW ps \in SUBSET Plugins, ScheduleRemove(ps), UNCHANGED <<lag, elapsed>>,
             stage # "reset"
      PROVE  OnTime'
  <2>1. TableTypes(Table') /\ NotLate(Table', lag) /\ NotEarly(Table', lag)
    BY <1>1, <1>3, RemoveKeeps
  <2>2. TimersAreOnTime'
    BY <1>0, <1>3 DEF OnTime, TimersAreOnTime
  <2>3. QED
    BY <1>3, <2>1, <2>2 DEF OnTime
<1>4. ASSUME NEW p \in DOMAIN pool, TakeRequests(p), UNCHANGED <<lag, stage>>,
             stage # "reset" => lag >= 1,
             \A k \in DOMAIN elapsed' : k \in DOMAIN elapsed /\ elapsed'[k] = elapsed[k]
      PROVE  OnTime'
  <2>1. TableTypes(Table') /\ NotLate(Table', lag)
        /\ (stage # "reset" => NotEarly(Table', lag))
    BY <1>1, <1>4, TakeKeeps
  <2>2. TimersAreOnTime'
    BY <1>0, <1>4 DEF OnTime, TimersAreOnTime
  <2>3. QED
    BY <1>4, <2>1, <2>2 DEF OnTime
<1>5. ASSUME NEW next, BeginReset(next), stage # "reset" PROVE OnTime'
  <2>1. DOMAIN pool \in SUBSET Plugins
    BY <1>0 DEF Types
  <2>2. QED
    BY <1>3, <1>5, <2>1 DEF BeginReset
<1>6. ASSUME DeactivateEngine PROVE OnTime'
  BY <1>5, <1>6 DEF DeactivateEngine
<1>7. ASSUME ActivateEngine PROVE OnTime'
  BY <1>7, OnTimeSame DEF ActivateEngine
<1>8. ASSUME NEW p \in Plugins, AddPlugin(p) PROVE OnTime'
  BY <1>8, OnTimeSame DEF AddPlugin
<1>9. ASSUME NEW p \in Plugins, RemovePlugin(p) PROVE OnTime'
  <2>1. {p} \in SUBSET Plugins
    BY <1>9
  <2>2. ScheduleRemove({p}) /\ stage = "free" /\ UNCHANGED <<lag, elapsed>>
    BY <1>9 DEF RemovePlugin
  <2> DEFINE ps == {p}
  <2> HIDE DEF ps
  <2>3. ps \in SUBSET Plugins /\ ScheduleRemove(ps)
    BY <2>1, <2>2 DEF ps
  <2>4. QED
    BY <1>3, <2>2, <2>3
<1>10. ASSUME NEW p \in Plugins, RegisterTimer(p) PROVE OnTime'
  BY <1>10, OnTimeSame DEF RegisterTimer, RequestOnly
<1>11. ASSUME NEW p \in Plugins, UnregisterTimer(p) PROVE OnTime'
  BY <1>11, OnTimeSame DEF UnregisterTimer, RequestOnly
<1>12. ASSUME NEW p \in Plugins, ProcessorDrops(p) PROVE OnTime'
  BY <1>12, OnTimeSame DEF ProcessorDrops
<1>13. ASSUME EndReset PROVE OnTime'
  <2>1. /\ entries' = entries /\ lag' \in {-MaxLate, lag}
        /\ wheel' = NewWheel /\ age' = [k \in {MainIdle, Garbage} |-> 0]
        /\ elapsed' = elapsed
    BY <1>13 DEF EndReset, ResetWheel
  <2>2. lag' \in Int /\ lag' <= IdleInterval
    BY <1>2, <2>1, KeyFacts
  <2>3. DOMAIN wheel' = {MainIdle, Garbage} /\ DOMAIN age' = {MainIdle, Garbage}
        /\ \A k \in {MainIdle, Garbage} : wheel'[k] = Interval(k) /\ age'[k] = 0
                                          /\ Interval(k) \in Nat \ {0}
    BY <2>1, KeyFacts DEF NewWheel, Keys
  <2>4. entries' \subseteq Plugins \X Ids /\ {MainIdle, Garbage} \subseteq Keys
    BY <1>1, <2>1 DEF TableTypes, Table, Keys
  <2>5. TableTypes(Table')
    BY <2>3, <2>4 DEF TableTypes, Table
  <2>6. NotLate(Table', lag')
    BY <2>2, <2>3, KeyFacts DEF NotLate, Due, Table
  <2>7. NotEarly(Table', lag')
    BY <2>3 DEF NotEarly, Table, IsPluginKey
  <2>8. TimersAreOnTime'
    BY <1>0, <2>1 DEF OnTime, TimersAreOnTime
  <2>9. QED
    BY <2>5, <2>6, <2>7, <2>8 DEF OnTime
<1>14. ASSUME Compile PROVE OnTime'
  <2>1. stage = "compile"
    BY <1>14 DEF Compile
  <2>2. CASE BeginReset([to |-> after.to, crash |-> TRUE])
    BY <1>5, <2>1, <2>2
  <2>3. CASE UNCHANGED <<timeVars, elapsed>>
    BY <2>1, <2>3, OnTimeSame
  <2>4. QED
    BY <1>14, <2>2, <2>3 DEF Compile
<1>15. ASSUME Elapse PROVE OnTime'
  <2>1. /\ lag' = lag - 1 /\ age' = [k \in DOMAIN age |-> age[k] + 1]
        /\ wheel' = wheel /\ entries' = entries /\ elapsed' = elapsed /\ stage # "reset"
    BY <1>15 DEF Elapse
  <2>2. TableTypes(Table')
    BY <1>1, <2>1 DEF TableTypes, Table
  <2>3. \A k \in DOMAIN wheel : Due(Table', k, lag') = Due(Table, k, lag)
    <3>1. ASSUME NEW k \in DOMAIN wheel
          PROVE  Due(Table', k, lag') = Due(Table, k, lag)
      <4>1. /\ k \in DOMAIN age /\ age[k] \in Nat /\ wheel[k] \in Int
            /\ k \in Keys /\ Interval(k) \in Nat
        BY <1>1, KeyFacts DEF TableTypes, Table
      <4>2. age'[k] = age[k] + 1
        BY <2>1, <4>1
      <4>3. QED
        BY <1>2, <2>1, <4>1, <4>2 DEF Due, Table
    <3>2. QED
      BY <3>1
  <2>4. NotLate(Table', lag') /\ NotEarly(Table', lag')
    BY <1>1, <2>1, <2>3 DEF NotLate, NotEarly, Table
  <2>5. TimersAreOnTime'
    BY <1>0, <2>1 DEF OnTime, TimersAreOnTime
  <2>6. QED
    BY <2>2, <2>4, <2>5 DEF OnTime
<1>16. ASSUME BeginTimer PROVE OnTime'
  <2> DEFINE due == {k \in DOMAIN wheel : wheel[k] <= Ticks}
             next == [k \in DOMAIN wheel |-> IF k \in due THEN Interval(k) ELSE wheel[k] - Ticks]
  <2>1. PICK skip \in 0..GarbageInterval :
          /\ \A k \in DOMAIN next : skip < next[k]
          /\ wheel' = [k \in DOMAIN next |-> next[k] - skip]
          /\ lag' = lag + Ticks + skip
    BY <1>16 DEF BeginTimer, Advance, Skips
  <2>2. /\ elapsed' = [k \in due |-> [tick |-> wheel[k], age |-> age[k]]]
        /\ age' = [k \in DOMAIN age |-> IF k \in due THEN 0 ELSE age[k]]
        /\ entries' = entries /\ stage # "reset" /\ lag <= 0
    BY <1>16 DEF BeginTimer, Advance
  <2>3. skip \in Nat /\ Ticks = 1 - lag /\ Ticks \in Nat \ {0} /\ lag' = 1 + skip
        /\ lag' \in Int /\ -MaxLate <= lag
    BY <1>2, <2>1, <2>2, KeyFacts DEF Ticks
  <2>4. ASSUME NEW k \in DOMAIN wheel
        PROVE  /\ k \in DOMAIN age /\ age[k] \in Nat /\ wheel[k] \in 1..Interval(k)
               /\ Interval(k) \in Nat \ {0}
               /\ age[k] + lag + wheel[k] - 1 <= Interval(k) + IdleInterval
               /\ IsPluginKey(k) => age[k] + lag + wheel[k] - 1 >= Interval(k)
    <3>1. k \in DOMAIN age /\ age[k] \in Nat /\ wheel[k] \in 1..Interval(k) /\ k \in Keys
      BY <1>1 DEF TableTypes, Table
    <3>2. QED
      BY <1>1, <2>2, <3>1, KeyFacts DEF NotLate, NotEarly, Due, Table
  <2>5. ASSUME NEW k \in due
        PROVE  /\ elapsed'[k].age = age[k]
               /\ IsPluginKey(k) => age[k] >= Interval(k)
               /\ age[k] <= Interval(k) + IdleInterval + MaxLate
    <3>1. k \in DOMAIN wheel /\ wheel[k] <= 1 - lag
      BY <2>3
    <3>2. elapsed'[k].age = age[k]
      BY <2>2
    <3>3. QED
      BY <1>2, <2>3, <2>4, <3>1, <3>2, KeyFacts
  <2>6. TimersAreOnTime'
    <3>1. DOMAIN elapsed' = due
      BY <2>2
    <3>2. QED
      BY <2>5, <3>1 DEF TimersAreOnTime
  <2>7. ASSUME NEW k \in DOMAIN wheel
        PROVE  /\ wheel'[k] \in 1..Interval(k) /\ age'[k] \in Nat
               /\ age'[k] + lag' + wheel'[k] - 1 <= Interval(k) + IdleInterval
               /\ IsPluginKey(k) => age'[k] + lag' + wheel'[k] - 1 >= Interval(k)
    <3>1. CASE wheel[k] <= Ticks
      <4>1. age'[k] = 0 /\ wheel'[k] = Interval(k) - skip /\ skip < Interval(k)
        BY <2>1, <2>2, <2>4, <3>1
      <4>2. QED
        BY <2>3, <2>4, <4>1, KeyFacts
    <3>2. CASE ~(wheel[k] <= Ticks)
      <4>1. /\ age'[k] = age[k] /\ wheel'[k] = wheel[k] - Ticks - skip
            /\ skip < wheel[k] - Ticks
        BY <2>1, <2>2, <2>4, <3>2
      <4>2. QED
        BY <1>2, <2>3, <2>4, <4>1, KeyFacts
    <3>3. QED
      BY <3>1, <3>2
  <2>8. DOMAIN wheel' = DOMAIN wheel /\ DOMAIN age' = DOMAIN age
    BY <2>1, <2>2
  <2> HIDE DEF due, next
  <2>9. TableTypes(Table')
    BY <1>1, <2>2, <2>7, <2>8 DEF TableTypes, Table
  <2>10. NotLate(Table', lag') /\ NotEarly(Table', lag')
    BY <2>7, <2>8 DEF NotLate, NotEarly, Due, Table
  <2>11. QED
    BY <2>6, <2>9, <2>10 DEF OnTime
<1>17. ASSUME HandleMainIdle PROVE OnTime'
  BY <1>17, OnTimeSame DEF HandleMainIdle, Next1, Drop
<1>18. ASSUME HandleGarbage PROVE OnTime'
  BY <1>18, OnTimeSame DEF HandleGarbage, Next1, Drop
<1>19. ASSUME NEW p \in Plugins, NEW id \in Ids, HandlePluginTimer(p, id) PROVE OnTime'
  <2>1. /\ stage = "loop" /\ UNCHANGED <<lag, stage>>
        /\ \A k \in DOMAIN elapsed' : k \in DOMAIN elapsed /\ elapsed'[k] = elapsed[k]
    BY <1>19 DEF HandlePluginTimer, Next1, Drop
  <2>2. CASE engine /\ p \in DOMAIN pool /\ TakeRequests(p)
    <3>1. lag >= 1
      BY <1>0, <2>1, <2>2 DEF Stages
    <3>2. QED
      BY <1>4, <2>1, <2>2, <3>1
  <2>3. CASE UNCHANGED <<entries, wheel, age>>
    <3>1. UNCHANGED timeVars
      BY <2>1, <2>3 DEF timeVars
    <3>2. QED
      BY <2>1, <3>1, OnTimeSame
  <2>4. QED
    BY <1>19, <2>2, <2>3 DEF HandlePluginTimer
<1>20. ASSUME NEW p \in Plugins, FetchRequests(p) PROVE OnTime'
  BY <1>20, OnTimeSame DEF FetchRequests
<1>21. ASSUME IdleTimers PROVE OnTime'
  <2>1. batch # None /\ UNCHANGED <<lag, elapsed, stage>>
    BY <1>21 DEF IdleTimers
  <2>2. /\ batch.plugin \in DOMAIN pool /\ stage \in {"idle", "reset"}
        /\ stage # "reset" => lag >= 1
    BY <1>0, <2>1 DEF Stages
  <2>3. CASE TakeRequests(batch.plugin)
    BY <1>4, <2>1, <2>2, <2>3
  <2>4. CASE UNCHANGED <<entries, wheel, age>>
    <3>1. UNCHANGED timeVars
      BY <2>1, <2>4 DEF timeVars
    <3>2. QED
      BY <2>1, <3>1, OnTimeSame
  <2>5. QED
    BY <1>21, <2>3, <2>4 DEF IdleTimers
<1>22. ASSUME IdleRest PROVE OnTime'
  BY <1>22, OnTimeSame DEF IdleRest
<1>23. ASSUME EndIdle PROVE OnTime'
  BY <1>23, OnTimeSame DEF EndIdle
<1>24. ASSUME EndTimer PROVE OnTime'
  BY <1>24, OnTimeSame DEF EndTimer
<1>25. QED
  BY <1>6, <1>7, <1>8, <1>9, <1>10, <1>11, <1>12, <1>13, <1>14, <1>15, <1>16, <1>17, <1>18,
     <1>19, <1>20, <1>21, <1>22, <1>23, <1>24
  DEF Next, App, Plugin, Loop, Idle, OnTimer, Ids

\* Which timers a table names depends on its entries and the keys of its wheel only.
LEMMA NamesSame ==
  ASSUME entries' = entries, DOMAIN wheel' = DOMAIN wheel
  PROVE  \A q, ids : Names(Table, q, ids) => Names(Table', q, ids)
BY DEF Names, Table

\* Steps that change no table, no list of requests and no flag.
LEMMA TablesSame ==
  ASSUME IndInv, entries' = entries, DOMAIN wheel' = DOMAIN wheel,
         UNCHANGED <<requests, flag, wants, unused, batch>>,
         DOMAIN pool' = DOMAIN pool,
         \A p \in DOMAIN pool : /\ pool'[p].known = pool[p].known
                                /\ pool'[p].removed = pool[p].removed
  PROVE  Tables'
<1>1. Tables
  BY DEF IndInv
<1>2. \A q, ids : Names(Table, q, ids) => Names(Table', q, ids)
  BY NamesSame
<1>3. QED
  BY <1>1, <1>2 DEF Tables

\* Steps of a plugin that asks for something.
LEMMA TablesAsk ==
  ASSUME IndInv, NEW p \in DOMAIN pool, NEW id \in Ids, NEW register \in BOOLEAN,
         Ask(p, id, register),
         UNCHANGED <<timeVars, pool, unused, batch>>,
         wants' = [wants EXCEPT ![p] = IF register THEN wants[p] \cup {id} ELSE wants[p] \ {id}]
  PROVE  Tables'
<1> DEFINE r == [id |-> id, register |-> register]
<1>1. Tables /\ Types
  BY DEF IndInv
<1>2. /\ p \in Plugins /\ requests \in [Plugins -> Seq(Request)] /\ r \in Request
      /\ r.id = id /\ r.register = register /\ DOMAIN pool \subseteq Plugins
      /\ wants \in [Plugins -> SUBSET Ids]
  BY <1>1 DEF Types, Request
<1>3. /\ requests' = [requests EXCEPT ![p] = Append(requests[p], r)]
      /\ flag' = flag \cup {p}
  BY DEF Ask
<1> HIDE DEF r
<1>4. Known(pool[p].known, requests[p]) = wants[p]
  BY <1>1 DEF Tables
<1>5. requests'[p] = Append(requests[p], r) /\ requests[p] \in Seq(Request)
      /\ wants'[p] = IF register THEN wants[p] \cup {id} ELSE wants[p] \ {id}
  BY <1>2, <1>3
<1>6. Known(pool[p].known, requests'[p]) = wants'[p]
  <2>1. Known(pool[p].known, Append(requests[p], r)) =
          IF r.register THEN Known(pool[p].known, requests[p]) \cup {r.id}
          ELSE Known(pool[p].known, requests[p]) \ {r.id}
    <3> DEFINE ids == pool[p].known
               reqs == requests[p]
    <3>1. reqs \in Seq(Request)
      BY <1>5
    <3> HIDE DEF ids, reqs
    <3>2. Known(ids, Append(reqs, r)) =
            IF r.register THEN Known(ids, reqs) \cup {r.id} ELSE Known(ids, reqs) \ {r.id}
      BY <1>2, <3>1, KnownAppend
    <3>3. QED
      BY <3>2 DEF ids, reqs
  <2>2. QED
    BY <1>2, <1>4, <1>5, <2>1
<1>7. \A q \in Plugins : q # p => requests'[q] = requests[q] /\ wants'[q] = wants[q]
  BY <1>2, <1>3
<1>8. \A q, ids : Names(Table, q, ids) => Names(Table', q, ids)
  BY NamesSame DEF timeVars
<1>9. p \notin unused /\ unused \subseteq Plugins
  BY <1>1 DEF Tables, Types
<1>10. \A q \in unused : /\ requests'[q] = <<>> /\ wants'[q] = {} /\ Names(Table', q, {})
                         /\ q \notin DOMAIN pool
  BY <1>1, <1>7, <1>8, <1>9 DEF Tables
<1>11. ASSUME NEW q \in DOMAIN pool
       PROVE  /\ Known(pool[q].known, requests'[q]) = wants'[q]
              /\ ~pool[q].removed => Names(Table', q, pool[q].known)
              /\ requests'[q] # <<>> =>
                   \/ q \in flag'
                   \/ batch # None /\ batch.plugin = q /\ batch.timers /\ ~batch.taken
  <2>1. CASE q = p
    BY <1>1, <1>3, <1>6, <1>8, <2>1 DEF Tables
  <2>2. CASE q # p
    BY <1>1, <1>2, <1>3, <1>7, <1>8, <2>2 DEF Tables
  <2>3. QED
    BY <2>1, <2>2
<1>12. QED
  BY <1>10, <1>11 DEF Tables

\* Steps of a host that takes the requests of its plugin.
LEMMA TablesTake ==
  ASSUME IndInv, NEW p \in DOMAIN pool, TakeRequests(p), UNCHANGED <<flag, wants, unused>>,
         batch' = batch \/ (batch # None /\ batch.plugin = p)
  PROVE  Tables'
<1>1. Tables /\ Types
  BY DEF IndInv
<1>2. p \in Plugins /\ DOMAIN pool \subseteq Plugins /\ unused \subseteq Plugins
      /\ p \notin unused /\ pool[p] \in PluginHost
  BY <1>1 DEF Tables, Types
<1>3. /\ \A ids : Names(Table, p, ids) => Names(Table', p, Known(ids, requests[p]))
      /\ \A q \in Plugins : \A ids :
           q # p /\ Names(Table, q, ids) => Names(Table', q, ids)
  BY TakeKeeps
<1>4. /\ DOMAIN pool' = DOMAIN pool
      /\ pool'[p] = [pool[p] EXCEPT !.known = Known(pool[p].known, requests[p])]
      /\ \A q \in DOMAIN pool : q # p => pool'[q] = pool[q]
      /\ requests'[p] = <<>>
      /\ \A q \in Plugins : q # p => requests'[q] = requests[q]
  BY TakeTypes
<1>5. pool'[p].known = Known(pool[p].known, requests[p]) /\ pool'[p].removed = pool[p].removed
  BY <1>2, <1>4 DEF PluginHost
<1>6. Known(pool'[p].known, requests'[p]) = wants[p]
  <2>1. Known(pool[p].known, requests[p]) = wants[p]
    BY <1>1 DEF Tables
  <2>2. Known(pool'[p].known, <<>>) = pool'[p].known
    BY KnownEmpty
  <2>3. QED
    BY <1>4, <1>5, <2>1, <2>2
<1>7. ~pool'[p].removed => Names(Table', p, pool'[p].known)
  BY <1>1, <1>3, <1>5 DEF Tables
<1>8. ASSUME NEW q \in DOMAIN pool, q # p
      PROVE  /\ Known(pool'[q].known, requests'[q]) = wants[q]
             /\ ~pool'[q].removed => Names(Table', q, pool'[q].known)
             /\ requests'[q] # <<>> =>
                  \/ q \in flag
                  \/ batch' # None /\ batch'.plugin = q /\ batch'.timers /\ ~batch'.taken
  BY <1>1, <1>2, <1>3, <1>4, <1>8 DEF Tables
<1>9. \A q \in unused : /\ requests'[q] = <<>> /\ wants[q] = {} /\ Names(Table', q, {})
                        /\ q \notin DOMAIN pool'
  BY <1>1, <1>2, <1>3, <1>4 DEF Tables
<1>10. QED
  BY <1>4, <1>6, <1>7, <1>8, <1>9 DEF Tables

\* Tables is preserved by every action.
LEMMA TablesStep == IndInv /\ Next => Tables'
<1> SUFFICES ASSUME IndInv, Next PROVE Tables'
  OBVIOUS
<1>0. Types /\ Stages /\ Tables
  BY DEF IndInv
<1>00. None \notin After /\ None \notin Batch
  BY TimerAssumption DEF After, Batch
<1> USE DEF timeVars, pluginVars, idleVars
<1>1. ASSUME ActivateEngine PROVE Tables'
  BY <1>1, TablesSame DEF ActivateEngine
<1>2. ASSUME NEW ps \in SUBSET Plugins, ScheduleRemove(ps), ps \subseteq DOMAIN pool,
             UNCHANGED <<unused, pluginVars, idleVars>>
      PROVE  Tables'
  <2>1. \A q \in Plugins \ ps : \A ids : Names(Table, q, ids) => Names(Table', q, ids)
    BY <1>2, RemoveKeeps
  <2>2. /\ DOMAIN pool' = DOMAIN pool
        /\ \A q \in DOMAIN pool :
             /\ pool'[q].known = pool[q].known
             /\ q \in ps => pool'[q].removed
             /\ q \notin ps => pool'[q] = pool[q]
    BY <1>2, RemoveTypes
  <2>3. \A q \in unused : q \in Plugins \ ps
    BY <1>0, <1>2 DEF Tables, Types
  <2>4. DOMAIN pool \subseteq Plugins
    BY <1>0 DEF Types
  <2>5. \A q \in unused : requests'[q] = <<>> /\ wants'[q] = {} /\ Names(Table', q, {})
                          /\ q \notin DOMAIN pool'
    BY <1>0, <1>2, <2>1, <2>2, <2>3 DEF Tables
  <2>6. ASSUME NEW q \in DOMAIN pool
        PROVE  /\ Known(pool'[q].known, requests'[q]) = wants'[q]
               /\ ~pool'[q].removed => Names(Table', q, pool'[q].known)
               /\ requests'[q] # <<>> =>
                    \/ q \in flag'
                    \/ batch' # None /\ batch'.plugin = q /\ batch'.timers /\ ~batch'.taken
    BY <1>0, <1>2, <2>1, <2>2, <2>4 DEF Tables
  <2>7. QED
    BY <1>2, <2>2, <2>5, <2>6 DEF Tables
<1>3. ASSUME NEW next, BeginReset(next) PROVE Tables'
  <2>1. DOMAIN pool \in SUBSET Plugins
    BY <1>0 DEF Types
  <2>2. QED
    BY <1>2, <1>3, <2>1 DEF BeginReset
<1>4. ASSUME DeactivateEngine PROVE Tables'
  BY <1>3, <1>4 DEF DeactivateEngine
<1>5. ASSUME NEW p \in Plugins, AddPlugin(p) PROVE Tables'
  <2>1. PICK processor \in {"running", "none"} :
          pool' = Put(pool, p, [processor |-> processor, removed |-> FALSE, known |-> {}])
    BY <1>5 DEF AddPlugin
  <2>2. /\ p \in unused /\ unused' = unused \ {p} /\ entries' = entries /\ wheel' = wheel
        /\ UNCHANGED <<pluginVars, idleVars>>
    BY <1>5 DEF AddPlugin
  <2>3. /\ DOMAIN pool' = DOMAIN pool \cup {p} /\ pool'[p].known = {} /\ ~pool'[p].removed
        /\ \A q \in DOMAIN pool : q # p => pool'[q] = pool[q]
    BY <2>1 DEF Put
  <2>4. \A q, ids : Names(Table, q, ids) => Names(Table', q, ids)
    BY <2>2, NamesSame
  <2>5. p \notin DOMAIN pool /\ requests[p] = <<>> /\ wants[p] = {} /\ Names(Table', p, {})
    BY <1>0, <2>2, <2>4 DEF Tables
  <2>6. Known({}, <<>>) = {}
    BY KnownEmpty
  <2>7. QED
    BY <1>0, <2>2, <2>3, <2>4, <2>5, <2>6 DEF Tables
<1>6. ASSUME NEW p \in Plugins, RemovePlugin(p) PROVE Tables'
  <2> DEFINE ps == {p}
  <2>1. ScheduleRemove(ps) /\ UNCHANGED <<unused, pluginVars, idleVars>>
        /\ ps \in SUBSET Plugins /\ ps \subseteq DOMAIN pool
    BY <1>6 DEF RemovePlugin
  <2> HIDE DEF ps
  <2>2. QED
    BY <1>2, <2>1
<1>7. ASSUME NEW p \in Plugins, Callable(p) PROVE p \in DOMAIN pool
  BY <1>7 DEF Callable
<1>8. ASSUME NEW p \in Plugins, RegisterTimer(p) PROVE Tables'
  <2>1. nextId[p] \in Ids /\ p \in DOMAIN pool
    BY <1>0, <1>7, <1>8, KeyFacts DEF RegisterTimer, Types, Ids
  <2>2. /\ Ask(p, nextId[p], TRUE) /\ UNCHANGED <<timeVars, pool, unused, batch>>
        /\ wants' = [wants EXCEPT ![p] = IF TRUE THEN wants[p] \cup {nextId[p]}
                                         ELSE wants[p] \ {nextId[p]}]
    BY <1>8 DEF RegisterTimer, RequestOnly
  <2>3. QED
    BY <2>1, <2>2, TablesAsk
<1>9. ASSUME NEW p \in Plugins, UnregisterTimer(p) PROVE Tables'
  <2>1. PICK id \in wants[p] :
          Ask(p, id, FALSE) /\ wants' = [wants EXCEPT ![p] = wants[p] \ {id}]
    BY <1>9 DEF UnregisterTimer
  <2>2. id \in Ids /\ p \in DOMAIN pool
    BY <1>0, <1>7, <1>9, <2>1 DEF Types, UnregisterTimer
  <2>3. /\ UNCHANGED <<timeVars, pool, unused, batch>>
        /\ wants' = [wants EXCEPT ![p] = IF FALSE THEN wants[p] \cup {id} ELSE wants[p] \ {id}]
    BY <1>9, <2>1 DEF UnregisterTimer, RequestOnly
  <2>4. QED
    BY <2>1, <2>2, <2>3, TablesAsk
<1>10. ASSUME NEW p \in Plugins, ProcessorDrops(p) PROVE Tables'
  <2>1. /\ DOMAIN pool' = DOMAIN pool
        /\ \A q \in DOMAIN pool : /\ pool'[q].known = pool[q].known
                                  /\ pool'[q].removed = pool[q].removed
    BY <1>0, <1>10 DEF ProcessorDrops, Types, PluginHost
  <2>2. QED
    BY <1>10, <2>1, TablesSame DEF ProcessorDrops
<1>11. ASSUME EndReset PROVE Tables'
  <2>1. DOMAIN <<>> = {}
    OBVIOUS
  <2>2. DOMAIN pool' = {} /\ entries' = entries /\ DOMAIN wheel' = {MainIdle, Garbage}
        /\ UNCHANGED <<unused, pluginVars, idleVars>>
    BY <1>11, <2>1 DEF EndReset, ResetWheel, NewWheel
  <2>3. ASSUME NEW q \in unused
        PROVE  Names(Table', q, {})
    <3>1. q \in Plugins /\ Names(Table, q, {})
      BY <1>0 DEF Types, Tables
    <3>2. \A id \in Ids : Key(q, id) \notin DOMAIN wheel'
      BY <2>2, <3>1, KeyFacts
    <3>3. QED
      BY <2>2, <3>1, <3>2 DEF Names, IdsOf, Ids, Table
  <2>4. QED
    BY <1>0, <2>2, <2>3 DEF Tables
<1>12. ASSUME Compile PROVE Tables'
  <2>1. CASE BeginReset([to |-> after.to, crash |-> TRUE])
    BY <1>3, <2>1
  <2>2. CASE UNCHANGED <<timeVars, elapsed, engineVars, pool, unused, pluginVars, idleVars>>
    BY <2>2, TablesSame
  <2>3. QED
    BY <1>12, <2>1, <2>2 DEF Compile
<1>13. ASSUME Elapse PROVE Tables'
  BY <1>13, TablesSame DEF Elapse
<1>14. ASSUME BeginTimer PROVE Tables'
  <2>1. entries' = entries /\ DOMAIN wheel' = DOMAIN wheel
    BY <1>14 DEF BeginTimer, Advance
  <2>2. UNCHANGED <<pool, unused, pluginVars, idleVars>>
    BY <1>14 DEF BeginTimer
  <2>3. QED
    BY <2>1, <2>2, TablesSame
<1>15. ASSUME HandleMainIdle PROVE Tables'
  BY <1>15, TablesSame DEF HandleMainIdle
<1>16. ASSUME HandleGarbage PROVE Tables'
  BY <1>16, TablesSame DEF HandleGarbage
<1>17. ASSUME NEW p \in Plugins, NEW id \in Ids, HandlePluginTimer(p, id) PROVE Tables'
  <2>1. UNCHANGED <<lag, unused, flag, nextId, wants, idleVars>>
    BY <1>17 DEF HandlePluginTimer
  <2>2. CASE p \in DOMAIN pool /\ TakeRequests(p)
    BY <2>1, <2>2, TablesTake
  <2>3. CASE UNCHANGED <<entries, wheel, age, pool, requests>>
    BY <2>1, <2>3, TablesSame
  <2>4. QED
    BY <1>17, <2>2, <2>3 DEF HandlePluginTimer
<1>18. ASSUME NEW p \in Plugins, FetchRequests(p) PROVE Tables'
  <2>1. /\ batch = None /\ batch' = [plugin |-> p, timers |-> p \in flag, taken |-> FALSE]
        /\ flag' = flag \ {p} /\ p \in DOMAIN pool
        /\ UNCHANGED <<timeVars, pool, unused, requests, wants>>
    BY <1>0, <1>18 DEF FetchRequests, Stages
  <2>2. batch' # None
    <3>1. batch' \in Batch
      BY <1>18, <2>1 DEF Batch
    <3>2. QED
      BY <1>00, <3>1
  <2>3. \A q, ids : Names(Table, q, ids) => Names(Table', q, ids)
    BY <2>1, NamesSame
  <2>4. ASSUME NEW q \in DOMAIN pool, requests[q] # <<>>
        PROVE  q \in flag' \/ (batch'.plugin = q /\ batch'.timers /\ ~batch'.taken)
    <3>1. q \in flag
      BY <1>0, <2>1, <2>4 DEF Tables
    <3>2. CASE q = p
      <4>1. batch'.plugin = p /\ batch'.timers = (p \in flag) /\ batch'.taken = FALSE
        BY <2>1
      <4>2. QED
        BY <3>1, <3>2, <4>1
    <3>3. CASE q # p
      BY <2>1, <3>1, <3>3
    <3>4. QED
      BY <3>2, <3>3
  <2>5. QED
    BY <1>0, <2>1, <2>2, <2>3, <2>4 DEF Tables
<1>19. ASSUME IdleTimers PROVE Tables'
  <2>1. /\ batch # None /\ ~batch.taken /\ batch' = [batch EXCEPT !.taken = TRUE]
        /\ batch.plugin \in DOMAIN pool
        /\ UNCHANGED <<lag, elapsed, engineVars, unused, flag, nextId, wants, stage, after,
                       todo, recompile>>
    BY <1>0, <1>19 DEF IdleTimers, Stages
  <2>2. CASE batch.timers /\ TakeRequests(batch.plugin)
    BY <2>1, <2>2, TablesTake
  <2>3. CASE ~batch.timers /\ UNCHANGED <<entries, wheel, age, pool, requests>>
    <3>1. \A q, ids : Names(Table, q, ids) => Names(Table', q, ids)
      BY <2>3, NamesSame
    <3>2. \A q \in DOMAIN pool : requests[q] # <<>> => q \in flag
      BY <1>0, <2>3 DEF Tables
    <3>3. QED
      BY <1>0, <2>1, <2>3, <3>1, <3>2 DEF Tables
  <2>4. QED
    BY <1>19, <2>2, <2>3 DEF IdleTimers
<1>20. ASSUME IdleRest PROVE Tables'
  <2>1. /\ batch # None /\ batch.taken /\ batch' = None
        /\ UNCHANGED <<timeVars, elapsed, engineVars, unused, pluginVars, stage, after>>
    BY <1>20 DEF IdleRest
  <2>2. \A q, ids : Names(Table, q, ids) => Names(Table', q, ids)
    BY <2>1, NamesSame
  <2>3. /\ DOMAIN pool' \subseteq DOMAIN pool
        /\ \A q \in DOMAIN pool' : /\ pool'[q].known = pool[q].known
                                   /\ pool'[q].removed = pool[q].removed
    <3>1. CASE pool' = Drop(pool, {batch.plugin})
      BY <3>1 DEF Drop
    <3>2. CASE pool' = [pool EXCEPT ![batch.plugin].processor = "running"]
      BY <1>0, <3>2 DEF Types, PluginHost
    <3>3. CASE UNCHANGED pool
      BY <3>3
    <3>4. QED
      BY <1>20, <3>1, <3>2, <3>3 DEF IdleRest
  <2>4. \A q \in DOMAIN pool : requests[q] # <<>> => q \in flag
    BY <1>0, <2>1 DEF Tables
  <2>5. QED
    BY <1>0, <2>1, <2>2, <2>3, <2>4 DEF Tables
<1>21. ASSUME EndIdle PROVE Tables'
  BY <1>21, TablesSame DEF EndIdle
<1>22. ASSUME EndTimer PROVE Tables'
  BY <1>22, TablesSame DEF EndTimer
<1>23. QED
  BY <1>1, <1>4, <1>5, <1>6, <1>8, <1>9, <1>10, <1>11, <1>12, <1>13, <1>14, <1>15, <1>16,
     <1>17, <1>18, <1>19, <1>20, <1>21, <1>22
  DEF Next, App, Plugin, Loop, Idle, OnTimer, Ids

----------------------------------------------------------------------------
\* Nothing changes in a stuttering step.
LEMMA Stutter == IndInv /\ UNCHANGED vars => IndInv'
<1> SUFFICES ASSUME IndInv, UNCHANGED vars PROVE IndInv'
  OBVIOUS
<1> USE DEF vars
<1>1. Types'
  BY DEF IndInv, Types
<1>2. Stages'
  BY DEF IndInv, Stages
<1>3. Tables'
  BY TablesSame
<1>4. OnTime'
  BY OnTimeSame DEF timeVars
<1>5. QED
  BY <1>1, <1>2, <1>3, <1>4 DEF IndInv

\* Every reachable state has the four parts of the invariant.
THEOREM Invariance == Spec => []IndInv
<1>1. Init => IndInv
  BY InitInd
<1>2. IndInv /\ [Next]_vars => IndInv'
  BY Stutter, TypesStep, StagesStep, OnTimeStep, TablesStep DEF IndInv
<1>3. QED
  BY <1>1, <1>2, PTL DEF Spec

\* For every set of plugins, periods and bounds, the tables name known plugins and timers
\* and the elapsed entries are handled before on_timer returns (engine/main_thread.rs).
THEOREM TypeCorrect == Spec => []TypeOK
<1>1. IndInv => TypeOK
  <2> SUFFICES ASSUME IndInv PROVE TypeOK
    OBVIOUS
  <2>1. Types /\ Stages /\ TableTypes(Table)
    BY DEF IndInv, OnTime
  <2>2. lag \in -MaxLate..2 * GarbageInterval
    BY <2>1, KeyFacts DEF Types
  <2>3. /\ {MainIdle, Garbage} \subseteq DOMAIN wheel /\ DOMAIN wheel \subseteq Keys
        /\ \A k \in DOMAIN wheel : wheel[k] \in 1..Interval(k)
        /\ DOMAIN age = DOMAIN wheel
    BY <2>1 DEF TableTypes, Table
  <2>4. \A p \in DOMAIN pool :
          /\ pool[p].processor \in {"none", "running", "dropping", "dropped"}
          /\ pool[p].removed \in BOOLEAN /\ pool[p].known \subseteq Ids
    BY <2>1 DEF Types, PluginHost
  <2>5. QED
    BY <2>1, <2>2, <2>3, <2>4 DEF TypeOK, Types, Stages
<1>2. QED
  BY <1>1, Invariance, PTL

\* Whatever the periods, and however late the application is, no timer of a plugin
\* elapses before its period is over and none later than a main idle interval and the delay
\* of the application after it should: EngineTimerWheel::advance counts every missed tick
\* and every skipped one once (timer_wheel.rs:144).
THEOREM TimersFireOnTime == Spec => []TimersAreOnTime
<1>1. IndInv => TimersAreOnTime
  BY DEF IndInv, OnTime
<1>2. QED
  BY <1>1, Invariance, PTL

\* The wheel, registered_plugin_entries and registered_timers of a plugin that was not
\* removed name the same timers, those its plugin wants once its requests are taken, and
\* requests that are not taken are announced (plugin_host/main_thread.rs:878, :1264).
THEOREM TablesAgree == Spec => []TimersAgree
<1>1. IndInv => TimersAgree
  <2> SUFFICES ASSUME IndInv, NEW p \in DOMAIN pool
               PROVE  /\ ~pool[p].removed =>
                           /\ pool[p].known = IdsOf(p, entries)
                           /\ pool[p].known = IdsOf(p, DOMAIN wheel)
                           /\ requests[p] = <<>> => pool[p].known = wants[p]
                      /\ requests[p] # <<>> =>
                           \/ p \in flag
                           \/ batch # None /\ batch.plugin = p /\ batch.timers /\ ~batch.taken
    BY DEF TimersAgree
  <2>1. Tables
    BY DEF IndInv
  <2>2. ~pool[p].removed =>
          pool[p].known = IdsOf(p, entries) /\ pool[p].known = IdsOf(p, DOMAIN wheel)
    BY <2>1 DEF Tables, Names, Table
  <2>3. requests[p] = <<>> => pool[p].known = wants[p]
    BY <2>1, KnownEmpty DEF Tables
  <2>4. QED
    BY <2>1, <2>2, <2>3 DEF Tables
<1>2. QED
  BY <1>1, Invariance, PTL

\* The application has its activated_state while the engine has its own, and loses it
\* with the end of the engine or is about to be told: crash_msg or EngineDeactivated is on
\* its way (main.rs:256).
THEOREM EngineEndsAreReported == Spec => []DeactivationIsReported
<1>1. IndInv => DeactivationIsReported
  BY DEF IndInv, Stages, DeactivationIsReported
<1>2. QED
  BY <1>1, Invariance, PTL

\* on_timer of a plugin is called for a timer the plugin still wants, whatever it asked
\* for since the timer elapsed: its requests are taken first (plugin_host/main_thread.rs:879).
THEOREM CalledForWantedTimers == Spec => OnlyWantedTimersFire
<1> DEFINE Wanted == calling' \notin {calling, None} =>
                       calling'.timer \in wants[calling'.plugin] \cup {None}
<1>1. ASSUME IndInv, Next PROVE Wanted
  <2>0. Types /\ Stages /\ Tables
    BY <1>1 DEF IndInv
  <2>1. ASSUME NEW p \in Plugins, NEW id \in Ids, HandlePluginTimer(p, id) PROVE Wanted
    <3>1. batch = None /\ calling' \in {None, [plugin |-> p, timer |-> id]}
      BY <2>0, <2>1 DEF HandlePluginTimer, Next1, Stages
    <3>2. CASE calling' = None
      BY <3>2
    <3>3. CASE calling' # None
      <4>1. p \in DOMAIN pool /\ id \in pool'[p].known
        BY <2>1, <3>3 DEF HandlePluginTimer
      <4>2. Known(pool[p].known, requests[p]) = wants[p]
        BY <2>0, <4>1 DEF Tables
      <4>3. CASE TakeRequests(p)
        <5>1. pool'[p].known = Known(pool[p].known, requests[p])
          <6>1. pool[p] \in PluginHost
            BY <2>0, <4>1 DEF Types
          <6>2. QED
            BY <1>1, <4>1, <4>3, <6>1, TakeTypes DEF PluginHost
        <5>2. QED
          BY <3>1, <3>3, <4>1, <4>2, <5>1
      <4>4. CASE p \notin flag /\ pool' = pool
        <5>1. requests[p] = <<>>
          BY <2>0, <3>1, <4>1, <4>4 DEF Tables
        <5>2. QED
          BY <3>1, <3>3, <4>1, <4>2, <4>4, <5>1, KnownEmpty
      <4>5. QED
        BY <2>1, <4>1, <4>3, <4>4, <3>3 DEF HandlePluginTimer
    <3>4. QED
      BY <3>2, <3>3
  <2>2. CASE App
    <3>1. ASSUME NEW p \in Plugins, AddPlugin(p) PROVE Wanted
      <4>1. calling' = [plugin |-> p, timer |-> None]
        BY <3>1 DEF AddPlugin
      <4>2. QED
        BY <4>1
    <3>2. CASE DeactivateEngine
      BY <3>2 DEF DeactivateEngine, BeginReset
    <3>3. ASSUME ActivateEngine \/ \E p \in Plugins : RemovePlugin(p) PROVE Wanted
      BY <3>3 DEF ActivateEngine, RemovePlugin
    <3>4. QED
      BY <2>2, <3>1, <3>2, <3>3 DEF App
  <2>3. CASE Plugin
    BY <2>3 DEF Plugin, RegisterTimer, UnregisterTimer, RequestOnly
  <2>4. CASE Loop
    BY <2>1, <2>4 DEF Loop, HandleMainIdle, HandleGarbage, Ids
  <2>5. CASE Idle
    BY <2>5 DEF Idle, FetchRequests, IdleTimers, IdleRest, EndIdle
  <2>6. CASE BeginTimer \/ Compile \/ EndTimer \/ EndReset \/ Elapse
    BY <2>6 DEF BeginTimer, Compile, BeginReset, EndTimer, EndReset, Elapse
  <2>7. CASE \E p \in Plugins : ProcessorDrops(p)
    BY <2>7 DEF ProcessorDrops, idleVars
  <2>8. QED
    BY <1>1, <2>2, <2>3, <2>4, <2>5, <2>6, <2>7 DEF Next, OnTimer
<1>2. UNCHANGED vars => Wanted
  BY DEF vars
<1>3. IndInv /\ [Next]_vars => [Wanted]_vars
  BY <1>1, <1>2
<1>4. QED
  BY <1>3, Invariance, PTL DEF Spec, OnlyWantedTimersFire
==============================================================================
