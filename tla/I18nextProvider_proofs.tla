----------------------- MODULE I18nextProvider_proofs -----------------------
(***************************************************************************)
(* Proofs about the i18next controller and its Provider, for any locales   *)
(* and any number of loads, calls and effects: the language follows the    *)
(* active locale, the controller serves its callers in their order, and    *)
(* the children are on screen in their locale.                             *)
(***************************************************************************)
EXTENDS I18nextProvider, SequenceTheorems, TLAPS

----------------------------------------------------------------------------
(* The controller alone: whatever the application and the Provider do to   *)
(* it is one of its steps.                                                 *)

ControllerNext ==
  \/ Progress
  \/ \E l \in Locales : Preload(l) \/ Activate(l)
  \/ Dispose \/ GetTranslations

LoadSteps == {"waiting", "fetching", "done", "failed"}
CallSteps == {"queued", "loading", "switching", "switched", "rejected",
              "rollback", "resolved", "failed"}
Loads == [locale : Locales, gen : Nat, step : LoadSteps]
Calls == [locale : Locales, gen : Nat, step : CallSteps, load : Nat]

ControllerTypes ==
  /\ init \in {"pending", "ok", "failed"}
  /\ disposed \in BOOLEAN /\ terminal \in BOOLEAN /\ generation \in Nat
  /\ active \in Locales \cup {None} /\ language \in Locales \cup {None}
  /\ runtime \in Locales \cup {None} /\ previous \in Locales \cup {None}
  /\ bundles \in SUBSET Locales
  /\ pending \in [Locales -> Nat]
  /\ loads \in Seq(Loads) /\ calls \in Seq(Calls)

Unsettled(k) == loads[k].step \in {"waiting", "fetching"}

\* An open controller knows every load under way by its locale.
LoadsArePending ==
  ~Closed => \A k \in DOMAIN loads : Unsettled(k) => pending[loads[k].locale] = k

PendingInRange == \A l \in Locales : pending[l] # 0 => pending[l] \in DOMAIN loads

\* A load fetches after initialisation, and leaves its resources behind.
LoadsFetch ==
  \A k \in DOMAIN loads :
    /\ loads[k].step \in {"fetching", "done"} => init = "ok"
    /\ loads[k].step = "done" => loads[k].locale \in bundles

LoadInv ==
  /\ LoadsArePending /\ PendingInRange /\ PendingIsUnsettled /\ OneLoadPerLocale
  /\ LoadsFetch

\* The calls settle in their order, and only one at a time is under way.
OneTurn ==
  \E n \in 1..(Len(calls) + 1) :
    \A i \in DOMAIN calls :
      /\ Settled(i) <=> i < n
      /\ i > n => calls[i].step = "queued"

\* No call of before a rollback that failed goes on after it.
TerminalIsStale ==
  \A i \in DOMAIN calls :
    /\ calls[i].gen <= generation
    /\ terminal => calls[i].gen # generation

\* The language of the instance while no transition changes it.
Base == IF active = None THEN Initial ELSE active

InTransition(i) ==
  calls[i].step \in {"switching", "switched", "rejected", "rollback"}

\* What a call relies on at its step.
CallStands(i) ==
  /\ calls[i].step = "loading" =>
       /\ calls[i].load \in DOMAIN loads
       /\ loads[calls[i].load].locale = calls[i].locale
  /\ InTransition(i) => init = "ok" /\ previous = Base
  /\ calls[i].step \in {"switching", "switched", "resolved"} =>
       calls[i].locale \in bundles
  /\ calls[i].step = "switching" /\ ~terminal => language = Base
  /\ calls[i].step = "switched" => language = calls[i].locale

LanguageRests == init = "ok" /\ ~Switching /\ ~terminal => language = Base

ActiveStands ==
  /\ active # None => init = "ok" /\ active \in bundles
  /\ runtime # None => runtime = active

ControllerInv ==
  /\ ControllerTypes /\ LoadInv /\ OneTurn /\ TerminalIsStale
  /\ \A i \in DOMAIN calls : CallStands(i)
  /\ LanguageRests /\ ActiveStands

----------------------------------------------------------------------------
(* What the operators of the controller make of its calls and its loads.   *)

LEMMA CallFields ==
  ASSUME ControllerTypes
  PROVE  /\ Len(calls) \in Nat /\ DOMAIN calls = 1..Len(calls)
         /\ \A i \in DOMAIN calls :
              /\ calls[i] \in Calls
              /\ calls[i].locale \in Locales /\ calls[i].gen \in Nat
              /\ calls[i].step \in CallSteps /\ calls[i].load \in Nat
<1>1. /\ calls \in Seq(Calls) /\ Len(calls) \in Nat
      /\ DOMAIN calls = 1..Len(calls)
      /\ \A i \in DOMAIN calls : calls[i] \in Calls
  BY DEF ControllerTypes
<1> QED
  BY <1>1 DEF Calls

LEMMA LoadFields ==
  ASSUME ControllerTypes
  PROVE  /\ Len(loads) \in Nat /\ DOMAIN loads = 1..Len(loads)
         /\ \A k \in DOMAIN loads :
              /\ loads[k] \in Loads
              /\ loads[k].locale \in Locales /\ loads[k].gen \in Nat
              /\ loads[k].step \in LoadSteps
<1>1. /\ loads \in Seq(Loads) /\ Len(loads) \in Nat
      /\ DOMAIN loads = 1..Len(loads)
      /\ \A k \in DOMAIN loads : loads[k] \in Loads
  BY DEF ControllerTypes
<1> QED
  BY <1>1 DEF Loads

\* A call goes to another step, and nothing else changes.
CallGoes(i, s) ==
  /\ calls' \in Seq(Calls)
  /\ Len(calls') = Len(calls) /\ DOMAIN calls' = DOMAIN calls
  /\ \A j \in DOMAIN calls :
       /\ j # i => calls'[j] = calls[j]
       /\ calls'[j].locale = calls[j].locale /\ calls'[j].gen = calls[j].gen
  /\ calls'[i].step = s

LEMMA ToGoes ==
  ASSUME ControllerTypes, NEW i \in DOMAIN calls, NEW s \in CallSteps, To(i, s)
  PROVE  CallGoes(i, s) /\ calls'[i].load = calls[i].load
<1> DEFINE c == [calls[i] EXCEPT !.step = s]
<1>1. calls[i] \in Calls /\ i \in 1..Len(calls) /\ calls \in Seq(Calls)
  BY CallFields DEF ControllerTypes
<1>2. /\ c \in Calls /\ c.step = s /\ c.locale = calls[i].locale
      /\ c.gen = calls[i].gen /\ c.load = calls[i].load
  BY <1>1 DEF Calls
<1>3. calls' = [calls EXCEPT ![i] = c]
  BY DEF To
<1> HIDE DEF c
<1>4. /\ calls' \in Seq(Calls) /\ Len(calls') = Len(calls)
      /\ \A j \in 1..Len(calls) : calls'[j] = IF j = i THEN c ELSE calls[j]
  BY <1>1, <1>2, <1>3, ExceptSeq
<1>5. DOMAIN calls' = DOMAIN calls /\ DOMAIN calls = 1..Len(calls)
  BY <1>1, <1>4
<1> QED
  BY <1>1, <1>2, <1>4, <1>5 DEF CallGoes

\* Its turn is the first of the calls that have not settled.
LEMMA TurnIsAlone ==
  ASSUME ControllerTypes, OneTurn, NEW i, IsTurn(i)
  PROVE  /\ i \in DOMAIN calls /\ ~Settled(i)
         /\ \A j \in DOMAIN calls : j < i => Settled(j)
         /\ \A j \in DOMAIN calls : j > i => calls[j].step = "queued"
<1>1. PICK n \in 1..(Len(calls) + 1) :
        \A j \in DOMAIN calls :
          (Settled(j) <=> j < n) /\ (j > n => calls[j].step = "queued")
  BY DEF OneTurn
<1>2. i = n
  BY <1>1, CallFields DEF IsTurn
<1> QED
  BY <1>1, <1>2, CallFields DEF IsTurn

LEMMA TurnPasses ==
  ASSUME ControllerTypes, OneTurn, NEW i, IsTurn(i), NEW s \in CallSteps,
         CallGoes(i, s)
  PROVE  OneTurn'
<1>1. /\ i \in 1..Len(calls)
      /\ \A j \in DOMAIN calls : j < i => Settled(j)
      /\ \A j \in DOMAIN calls : j > i => calls[j].step = "queued"
  BY TurnIsAlone, CallFields
<1>2. \A j \in DOMAIN calls : j # i => (Settled(j)' <=> Settled(j))
  BY DEF CallGoes, Settled
<1>3. \A j \in DOMAIN calls : j > i => ~Settled(j)
  BY <1>1 DEF Settled
<1>4. CASE s \in {"resolved", "failed"}
  <2>1. i + 1 \in 1..(Len(calls') + 1)
    BY <1>1, CallFields DEF CallGoes
  <2>2. \A j \in DOMAIN calls' :
          (Settled(j)' <=> j < i + 1) /\ (j > i + 1 => calls'[j].step = "queued")
    BY <1>1, <1>2, <1>3, <1>4, CallFields DEF CallGoes, Settled
  <2> QED
    BY <2>1, <2>2 DEF OneTurn
<1>5. CASE s \notin {"resolved", "failed"}
  BY <1>1, <1>2, <1>3, <1>5, CallFields DEF CallGoes, Settled, OneTurn
<1> QED
  BY <1>4, <1>5

----------------------------------------------------------------------------
(* The loads.                                                              *)

LoadTypes ==
  /\ bundles \in SUBSET Locales /\ pending \in [Locales -> Nat]
  /\ loads \in Seq(Loads)

\* No load or resource is forgotten, and no load changes its locale.
LoadsKept ==
  /\ bundles \subseteq bundles'
  /\ \A k \in DOMAIN loads :
       k \in DOMAIN loads' /\ loads'[k].locale = loads[k].locale

LEMMA LoadLocaleInv ==
  ASSUME ControllerTypes, LoadInv, ~Closed, NEW l \in Locales, LoadLocale(l),
         UNCHANGED <<init, lifecycle>>
  PROVE  /\ LoadTypes' /\ LoadInv' /\ LoadsKept
         /\ pending'[l] \in DOMAIN loads' /\ loads'[pending'[l]].locale = l
<1>1. ~Closed'
  BY DEF Closed, lifecycle
<1>2. CASE pending[l] # 0
  <2>1. UNCHANGED <<pending, loads, bundles>>
    BY <1>2 DEF LoadLocale, loading
  <2> QED
    BY <1>2, <2>1 DEF ControllerTypes, LoadTypes, LoadInv, LoadsArePending,
         PendingInRange, PendingIsUnsettled, OneLoadPerLocale, LoadsFetch,
         Closed, lifecycle, Unsettled, LoadsKept
<1>3. CASE pending[l] = 0
  <2> DEFINE new == [locale |-> l, gen |-> generation, step |-> "waiting"]
             n   == Len(loads) + 1
  <2>1. new \in Loads /\ new.locale = l /\ new.step = "waiting"
    BY DEF ControllerTypes, Loads, LoadSteps
  <2>2. /\ loads' = Append(loads, new) /\ bundles' = bundles
        /\ pending' = [pending EXCEPT ![l] = n]
    BY <1>3 DEF LoadLocale, StartLoad
  <2> HIDE DEF new
  <2>3. /\ loads' \in Seq(Loads) /\ Len(loads') = n
        /\ \A k \in 1..Len(loads) : loads'[k] = loads[k]
        /\ loads'[n] = new
    BY <2>1, <2>2, AppendProperties DEF ControllerTypes
  <2>4. /\ DOMAIN loads = 1..Len(loads) /\ DOMAIN loads' = 1..n
        /\ Len(loads) \in Nat /\ n \in Nat /\ n \in DOMAIN loads'
    BY <2>3, LoadFields
  <2>5. /\ pending' \in [Locales -> Nat] /\ pending'[l] = n
        /\ \A m \in Locales \ {l} : pending'[m] = pending[m]
    BY <2>2, <2>4 DEF ControllerTypes
  <2>6. \A k \in DOMAIN loads : Unsettled(k) => loads[k].locale # l
    BY <1>3, <2>4 DEF LoadInv, LoadsArePending
  <2> HIDE DEF n
  <2>7. \A k \in DOMAIN loads' : k \in DOMAIN loads \/ k = n
    BY <2>4 DEF n
  <2>8. LoadTypes' /\ LoadsKept
    BY <2>2, <2>3, <2>4, <2>5 DEF ControllerTypes, LoadTypes, LoadsKept, n
  <2>9. LoadsArePending'
    BY <2>1, <2>3, <2>4, <2>5, <2>6, <2>7, LoadFields
       DEF LoadInv, LoadsArePending, Unsettled
  <2>10. PendingInRange'
    BY <2>4, <2>5, <2>8 DEF LoadInv, PendingInRange, LoadsKept
  <2>11. PendingIsUnsettled'
    BY <2>1, <2>3, <2>4, <2>5 DEF LoadInv, PendingInRange, PendingIsUnsettled
  <2>12. OneLoadPerLocale'
    <3> SUFFICES ASSUME NEW j \in DOMAIN loads', NEW k \in DOMAIN loads',
                        loads'[j].locale = loads'[k].locale,
                        loads'[j].step \in {"waiting", "fetching"},
                        loads'[k].step \in {"waiting", "fetching"}
                 PROVE  j = k
      BY DEF OneLoadPerLocale
    <3> QED
      BY <2>1, <2>3, <2>4, <2>6, <2>7 DEF LoadInv, OneLoadPerLocale, Unsettled
  <2>13. LoadsFetch'
    BY <2>1, <2>2, <2>3, <2>4, <2>7 DEF LoadInv, LoadsFetch
  <2> QED
    BY <2>1, <2>3, <2>4, <2>5, <2>8, <2>9, <2>10, <2>11, <2>12, <2>13
       DEF LoadInv
<1> QED
  BY <1>2, <1>3 DEF ControllerTypes

\* A load goes to another step.
LoadGoes(k, s) ==
  /\ loads' \in Seq(Loads) /\ DOMAIN loads' = DOMAIN loads
  /\ \A j \in DOMAIN loads :
       (j # k => loads'[j] = loads[j]) /\ loads'[j].locale = loads[j].locale
  /\ loads'[k].step = s

LEMMA StepGoes ==
  ASSUME ControllerTypes, NEW k \in DOMAIN loads, NEW s \in LoadSteps,
         loads' = [loads EXCEPT ![k].step = s]
  PROVE  LoadGoes(k, s)
<1> DEFINE c == [loads[k] EXCEPT !.step = s]
<1>1. loads[k] \in Loads /\ k \in 1..Len(loads) /\ loads \in Seq(Loads)
  BY LoadFields DEF ControllerTypes
<1>2. c \in Loads /\ c.step = s /\ c.locale = loads[k].locale
  BY <1>1 DEF Loads
<1>3. loads' = [loads EXCEPT ![k] = c]
  OBVIOUS
<1> HIDE DEF c
<1>4. /\ loads' \in Seq(Loads) /\ Len(loads') = Len(loads)
      /\ \A j \in 1..Len(loads) : loads'[j] = IF j = k THEN c ELSE loads[j]
  BY <1>1, <1>2, <1>3, ExceptSeq
<1>5. DOMAIN loads' = DOMAIN loads /\ DOMAIN loads = 1..Len(loads)
  BY <1>1, <1>4
<1> QED
  BY <1>1, <1>2, <1>4, <1>5 DEF LoadGoes

LEMMA SettleInv ==
  ASSUME ControllerTypes, LoadInv, NEW k \in DOMAIN loads,
         NEW s \in {"done", "failed"}, SettleLoad(k, s), Unsettled(k),
         bundles \subseteq bundles', bundles' \in SUBSET Locales,
         s = "done" => init = "ok" /\ loads[k].locale \in bundles',
         UNCHANGED <<init, lifecycle>>
  PROVE  LoadTypes' /\ LoadInv' /\ LoadsKept
<1> DEFINE l == loads[k].locale
<1>1. LoadGoes(k, s)
  BY StepGoes DEF SettleLoad, LoadSteps
<1>2. l \in Locales
  BY LoadFields
<1>3. /\ pending' \in [Locales -> Nat] /\ pending'[l] = 0
      /\ \A m \in Locales \ {l} : pending'[m] = pending[m]
  BY <1>2 DEF SettleLoad, ControllerTypes
<1>4. \A j \in DOMAIN loads : j # k /\ Unsettled(j) => loads[j].locale # l
  BY DEF LoadInv, OneLoadPerLocale, Unsettled
<1>5. \A m \in Locales : pending[m] = k => m = l
  BY LoadFields DEF LoadInv, PendingIsUnsettled
<1> HIDE DEF l
<1>6. LoadsArePending'
  BY <1>1, <1>3, <1>4, LoadFields DEF LoadInv, LoadsArePending, Unsettled,
       LoadGoes, Closed, lifecycle
<1>7. PendingInRange' /\ PendingIsUnsettled'
  BY <1>1, <1>3, <1>5 DEF LoadInv, PendingInRange, PendingIsUnsettled, LoadGoes
<1>8. OneLoadPerLocale'
  BY <1>1 DEF LoadInv, OneLoadPerLocale, LoadGoes
<1>9. LoadsFetch'
  BY <1>1 DEF LoadInv, LoadsFetch, LoadGoes
<1> QED
  BY <1>1, <1>3, <1>6, <1>7, <1>8, <1>9 DEF LoadInv, LoadTypes, LoadsKept,
       LoadGoes

LEMMA BeginLoadInv ==
  ASSUME ControllerTypes, LoadInv, NEW k, BeginLoad(k)
  PROVE  LoadTypes' /\ LoadInv' /\ LoadsKept
<1>1. /\ k \in DOMAIN loads /\ Unsettled(k) /\ loads[k].step = "waiting"
      /\ UNCHANGED <<init, lifecycle, bundles>>
  BY DEF BeginLoad, Unsettled
<1>2. CASE \E s \in {"done", "failed"} :
             SettleLoad(k, s) /\ (s = "done" => init = "ok" /\ loads[k].locale \in bundles)
  BY <1>1, <1>2, SettleInv DEF ControllerTypes
<1>3. CASE /\ init = "ok" /\ UNCHANGED pending
           /\ loads' = [loads EXCEPT ![k].step = "fetching"]
  <2>1. LoadGoes(k, "fetching")
    BY <1>1, <1>3, StepGoes DEF LoadSteps
  <2>2. LoadsArePending' /\ PendingInRange' /\ PendingIsUnsettled'
    BY <1>1, <1>3, <2>1 DEF LoadInv, LoadsArePending, Unsettled, LoadGoes,
         Closed, lifecycle, PendingInRange, PendingIsUnsettled
  <2>3. OneLoadPerLocale'
    BY <1>1, <2>1 DEF LoadInv, OneLoadPerLocale, LoadGoes
  <2>4. LoadsFetch'
    BY <1>1, <1>3, <2>1 DEF LoadInv, LoadsFetch, LoadGoes
  <2> QED
    BY <1>1, <1>3, <2>1, <2>2, <2>3, <2>4 DEF LoadInv, LoadTypes, LoadsKept,
         LoadGoes, ControllerTypes
<1> QED
  BY <1>1, <1>2, <1>3 DEF BeginLoad

LEMMA EndLoadInv ==
  ASSUME ControllerTypes, LoadInv, NEW k, EndLoad(k)
  PROVE  LoadTypes' /\ LoadInv' /\ LoadsKept
<1>1. /\ k \in DOMAIN loads /\ Unsettled(k) /\ init = "ok"
      /\ UNCHANGED <<init, lifecycle>>
  BY DEF EndLoad, Unsettled, LoadInv, LoadsFetch
<1>2. PICK s \in {"done", "failed"} :
        /\ SettleLoad(k, s) /\ bundles \subseteq bundles'
        /\ bundles' \in SUBSET Locales
        /\ s = "done" => loads[k].locale \in bundles'
  BY <1>1, LoadFields DEF EndLoad, ControllerTypes
<1> QED
  BY <1>1, <1>2, SettleInv

----------------------------------------------------------------------------
(* The calls.                                                              *)

LEMMA ControllerStarts == Init => ControllerInv
<1> SUFFICES ASSUME Init PROVE ControllerInv
  OBVIOUS
<1>1. ControllerTypes
  <2>1. <<>> \in Seq(Loads) /\ <<>> \in Seq(Calls)
    BY EmptySeq
  <2> QED
    BY <2>1 DEF Init, ControllerTypes
<1>2. LoadInv
  BY  DEF Init, LoadInv, LoadsArePending, PendingInRange, PendingIsUnsettled,
       OneLoadPerLocale, LoadsFetch
<1>3. calls = <<>>
  BY DEF Init
<1>4. OneTurn /\ TerminalIsStale /\ \A i \in DOMAIN calls : CallStands(i)
  BY <1>3 DEF OneTurn, TerminalIsStale
<1>5. LanguageRests /\ ActiveStands
  BY DEF Init, LanguageRests, ActiveStands
<1> QED
  BY <1>1, <1>4, <1>5, <1>2 DEF ControllerInv

\* What only moves loads on disturbs no call.
LEMMA LoadsMove ==
  ASSUME ControllerInv, LoadTypes', LoadInv', LoadsKept,
         UNCHANGED <<init, lifecycle, active, language, runtime, calls,
                     previous>>
  PROVE  ControllerInv'
<1>1. ControllerTypes'
  BY DEF ControllerInv, ControllerTypes, LoadTypes, lifecycle
<1>2. OneTurn' /\ TerminalIsStale'
  BY DEF ControllerInv, OneTurn, TerminalIsStale, lifecycle, Settled
<1>3. \A i \in DOMAIN calls' : CallStands(i)'
  BY DEF ControllerInv, CallStands, InTransition, Base, LoadsKept, lifecycle
<1>4. LanguageRests' /\ ActiveStands'
  BY  DEF ControllerInv, LanguageRests, ActiveStands, Switching, Base,
       LoadsKept, lifecycle
<1> QED
  BY <1>1, <1>2, <1>3, <1>4 DEF ControllerInv

LEMMA InitializeInv ==
  ASSUME ControllerInv, Initialize
  PROVE  ControllerInv'
<1>1. /\ init = "pending" /\ init' \in {"ok", "failed"}
      /\ language' \in Locales \cup {None}
      /\ init' = "ok" => language' = Initial
      /\ UNCHANGED <<lifecycle, active, runtime, loading, calls, previous>>
  BY ControllerConstants DEF Initialize, ControllerInv, ControllerTypes
<1>2. active = None
  BY <1>1 DEF ControllerInv, ActiveStands
<1>3. ControllerTypes'
  BY <1>1 DEF ControllerInv, ControllerTypes, lifecycle, loading
<1>4. LoadInv'
  BY <1>1 DEF ControllerInv, LoadInv, LoadsArePending, PendingInRange,
       PendingIsUnsettled, OneLoadPerLocale, LoadsFetch, lifecycle, loading,
       Closed, Unsettled
<1>5. OneTurn' /\ TerminalIsStale'
  BY <1>1 DEF ControllerInv, OneTurn, TerminalIsStale, lifecycle, Settled
<1>6. \A i \in DOMAIN calls' : CallStands(i)'
  BY <1>1 DEF ControllerInv, CallStands, InTransition, loading
<1>7. LanguageRests' /\ ActiveStands'
  BY <1>1, <1>2 DEF ControllerInv, LanguageRests, ActiveStands, Base
<1> QED
  BY <1>3, <1>4, <1>5, <1>6, <1>7 DEF ControllerInv

LEMMA ActivateInv ==
  ASSUME ControllerInv, NEW l \in Locales, Activate(l)
  PROVE  ControllerInv'
<1> DEFINE new == [locale |-> l, gen |-> generation, step |-> "queued",
                   load |-> 0]
           n   == Len(calls) + 1
<1>1. /\ new \in Calls /\ new.gen = generation /\ new.step = "queued"
  BY DEF ControllerInv, ControllerTypes, Calls, CallSteps
<1>2. /\ calls' = Append(calls, new) /\ ~Closed
      /\ UNCHANGED <<init, lifecycle, active, language, runtime, loading,
                     previous>>
  BY DEF Activate
<1> HIDE DEF new
<1>3. /\ calls' \in Seq(Calls) /\ Len(calls') = n
      /\ \A k \in 1..Len(calls) : calls'[k] = calls[k]
      /\ calls'[n] = new
  BY <1>1, <1>2, AppendProperties DEF ControllerInv, ControllerTypes
<1>4. /\ DOMAIN calls = 1..Len(calls) /\ DOMAIN calls' = 1..n
      /\ Len(calls) \in Nat
  BY <1>3, CallFields DEF ControllerInv
<1>5. \A k \in DOMAIN calls' : k \in DOMAIN calls \/ k = n
  BY <1>4
<1>6. ControllerTypes'
  BY <1>2, <1>3 DEF ControllerInv, ControllerTypes, lifecycle, loading
<1>7. LoadInv'
  BY <1>2 DEF ControllerInv, LoadInv, LoadsArePending, PendingInRange,
       PendingIsUnsettled, OneLoadPerLocale, LoadsFetch, lifecycle, loading,
       Closed, Unsettled
<1>8. OneTurn'
  <2>1. PICK m \in 1..(Len(calls) + 1) :
          \A j \in DOMAIN calls :
            (Settled(j) <=> j < m) /\ (j > m => calls[j].step = "queued")
    BY DEF ControllerInv, OneTurn
  <2>2. m \in 1..(Len(calls') + 1)
    BY <1>3, <1>4
  <2>3. \A j \in DOMAIN calls' :
          (Settled(j)' <=> j < m) /\ (j > m => calls'[j].step = "queued")
    BY <1>1, <1>3, <1>4, <2>1 DEF Settled
  <2> QED
    BY <2>2, <2>3 DEF OneTurn
<1>9. TerminalIsStale'
  BY <1>1, <1>2, <1>3, <1>4, <1>5 DEF ControllerInv, ControllerTypes,
       TerminalIsStale, lifecycle, Closed
<1>10. \A i \in DOMAIN calls' : CallStands(i)'
  BY <1>1, <1>2, <1>3, <1>4, <1>5 DEF ControllerInv, CallStands, InTransition,
       Base, loading, lifecycle
<1>11. Switching <=> Switching'
  BY <1>1, <1>3, <1>4, <1>5 DEF Switching
<1>12. LanguageRests' /\ ActiveStands'
  BY <1>2, <1>11 DEF ControllerInv, LanguageRests, ActiveStands, Base,
       loading, lifecycle
<1> QED
  BY <1>6, <1>7, <1>8, <1>9, <1>10, <1>12 DEF ControllerInv

\* The step of a turn disturbs no other call, and alone decides whether a
\* transition is under way.
LEMMA TurnStep ==
  ASSUME ControllerInv, NEW i, IsTurn(i), NEW s \in CallSteps, CallGoes(i, s),
         bundles \subseteq bundles'
  PROVE  /\ OneTurn'
         /\ \A j \in DOMAIN calls' : j # i => CallStands(j)'
         /\ Switching <=> InTransition(i)
         /\ Switching' <=> InTransition(i)'
<1>1. /\ i \in DOMAIN calls
      /\ \A j \in DOMAIN calls : j # i => Settled(j) \/ calls[j].step = "queued"
  BY TurnIsAlone, CallFields DEF ControllerInv
<1>2. OneTurn'
  BY TurnPasses DEF ControllerInv
<1>3. \A j \in DOMAIN calls' : j # i => CallStands(j)'
  BY <1>1 DEF ControllerInv, CallGoes, CallStands, Settled, InTransition
<1> QED
  BY <1>1, <1>2, <1>3 DEF CallGoes, Switching, InTransition, Settled

\* Where the step changes neither the loads nor the lifecycle.
LEMMA CallMoves ==
  ASSUME ControllerInv, NEW i, IsTurn(i), NEW s \in CallSteps, CallGoes(i, s),
         UNCHANGED <<init, lifecycle, loading>>,
         active' \in Locales \cup {None}, language' \in Locales \cup {None},
         runtime' \in Locales \cup {None}, previous' \in Locales \cup {None},
         CallStands(i)', LanguageRests', ActiveStands'
  PROVE  ControllerInv'
<1>1. ControllerTypes'
  BY DEF ControllerInv, ControllerTypes, CallGoes, lifecycle, loading
<1>2. LoadInv'
  BY  DEF ControllerInv, LoadInv, LoadsArePending, PendingInRange,
       PendingIsUnsettled, OneLoadPerLocale, LoadsFetch, lifecycle, loading,
       Closed, Unsettled
<1>3. OneTurn' /\ \A j \in DOMAIN calls' : CallStands(j)'
  BY TurnStep DEF loading
<1>4. TerminalIsStale'
  BY DEF ControllerInv, TerminalIsStale, CallGoes, lifecycle
<1> QED
  BY <1>1, <1>2, <1>3, <1>4 DEF ControllerInv

\* The turn that has come shares a load of its locale, or starts one.
LEMMA BeginCallGoes ==
  ASSUME ControllerInv, NEW i, BeginCall(i), ~Stale(calls[i].gen)
  PROVE  /\ LoadTypes' /\ LoadInv' /\ LoadsKept
         /\ CallGoes(i, "loading")
         /\ calls'[i].load \in DOMAIN loads'
         /\ loads'[calls'[i].load].locale = calls[i].locale
<1> DEFINE l == calls[i].locale
           c == [calls[i] EXCEPT !.step = "loading", !.load = pending'[l]]
<1>1. i \in DOMAIN calls /\ UNCHANGED <<init, lifecycle>>
  BY DEF BeginCall, IsTurn
<1>2. /\ LoadLocale(l) /\ l \in Locales /\ ~Closed
      /\ calls' = [calls EXCEPT ![i].step = "loading", ![i].load = pending'[l]]
  BY <1>1, CallFields DEF BeginCall, Stale, Closed, ControllerInv,
       TerminalIsStale
<1>3. /\ LoadTypes' /\ LoadInv' /\ LoadsKept
      /\ pending'[l] \in DOMAIN loads' /\ loads'[pending'[l]].locale = l
      /\ pending'[l] \in Nat
  BY <1>1, <1>2, LoadLocaleInv DEF ControllerInv, LoadTypes
<1>4. /\ calls[i] \in Calls /\ i \in 1..Len(calls) /\ calls \in Seq(Calls)
      /\ DOMAIN calls = 1..Len(calls)
  BY <1>1, CallFields DEF ControllerInv, ControllerTypes
<1>5. /\ c \in Calls /\ c.step = "loading" /\ c.load = pending'[l]
      /\ c.locale = l /\ c.gen = calls[i].gen
  BY <1>3, <1>4 DEF Calls, CallSteps
<1>6. calls' = [calls EXCEPT ![i] = c]
  BY <1>2, <1>4 DEF Calls
<1> HIDE DEF c
<1>7. /\ calls' \in Seq(Calls) /\ Len(calls') = Len(calls)
      /\ \A j \in 1..Len(calls) : calls'[j] = IF j = i THEN c ELSE calls[j]
  BY <1>4, <1>5, <1>6, ExceptSeq
<1>8. CallGoes(i, "loading") /\ calls'[i].load = pending'[l]
  <2>1. DOMAIN calls' = DOMAIN calls
    BY <1>4, <1>7
  <2> QED
    BY <1>4, <1>5, <1>7, <2>1 DEF CallGoes
<1> QED
  BY <1>3, <1>8

LEMMA BeginCallInv ==
  ASSUME ControllerInv, NEW i, BeginCall(i)
  PROVE  ControllerInv'
<1>1. /\ IsTurn(i) /\ i \in DOMAIN calls /\ calls[i].step = "queued"
      /\ UNCHANGED <<init, lifecycle, active, language, runtime, previous>>
  BY DEF BeginCall, IsTurn
<1>2. CASE To(i, "failed") /\ UNCHANGED loading
  <2>1. CallGoes(i, "failed")
    BY <1>1, <1>2, ToGoes DEF ControllerInv, CallSteps
  <2>2. CallStands(i)'
    BY <2>1 DEF CallGoes, CallStands, InTransition
  <2>3. Switching' <=> Switching
    BY <1>1, <1>2, <2>1, TurnStep DEF CallSteps, loading, CallGoes,
         InTransition
  <2>4. LanguageRests' /\ ActiveStands'
    BY <1>1, <1>2, <2>3 DEF ControllerInv, LanguageRests, ActiveStands, Base,
         lifecycle, loading
  <2>5. "failed" \in CallSteps
    BY DEF CallSteps
  <2> QED
    BY <1>1, <1>2, <2>1, <2>2, <2>4, <2>5, CallMoves
       DEF ControllerInv, ControllerTypes
<1>3. CASE ~Stale(calls[i].gen)
  <2>1. /\ LoadTypes' /\ LoadInv' /\ LoadsKept
        /\ CallGoes(i, "loading")
        /\ calls'[i].load \in DOMAIN loads'
        /\ loads'[calls'[i].load].locale = calls[i].locale
    BY <1>3, BeginCallGoes
  <2>2. OneTurn' /\ (\A j \in DOMAIN calls' : j # i => CallStands(j)')
        /\ (Switching' <=> Switching)
    BY <1>1, <2>1, TurnStep DEF CallSteps, LoadsKept, CallGoes, InTransition
  <2>3. CallStands(i)'
    BY <1>1, <2>1 DEF CallGoes, CallStands, InTransition
  <2>4. LanguageRests' /\ ActiveStands'
    BY <1>1, <2>1, <2>2 DEF ControllerInv, LanguageRests, ActiveStands, Base,
         lifecycle, LoadsKept
  <2>5. ControllerTypes'
    BY <1>1, <2>1 DEF ControllerInv, ControllerTypes, LoadTypes, CallGoes,
         lifecycle
  <2>6. TerminalIsStale'
    BY <1>1, <2>1 DEF ControllerInv, TerminalIsStale, CallGoes, lifecycle
  <2> QED
    BY <2>1, <2>2, <2>3, <2>4, <2>5, <2>6 DEF ControllerInv
<1> QED
  BY <1>2, <1>3 DEF BeginCall

LEMMA LoadedInv ==
  ASSUME ControllerInv, NEW i, Loaded(i)
  PROVE  ControllerInv'
<1>1. /\ IsTurn(i) /\ i \in DOMAIN calls /\ calls[i].step = "loading"
      /\ UNCHANGED <<init, lifecycle, active, language, runtime, loading>>
  BY DEF Loaded, IsTurn
<1>2. /\ calls[i].load \in DOMAIN loads
      /\ loads[calls[i].load].locale = calls[i].locale
  BY <1>1 DEF ControllerInv, CallStands
<1>3. Base' = Base
  BY <1>1 DEF Base
<1>4. CASE To(i, "failed") /\ UNCHANGED previous
  <2>1. CallGoes(i, "failed") /\ "failed" \in CallSteps
    BY <1>1, <1>4, ToGoes DEF ControllerInv, CallSteps
  <2>2. CallStands(i)'
    BY <2>1 DEF CallGoes, CallStands, InTransition
  <2>3. Switching' <=> Switching
    BY <1>1, <2>1, TurnStep DEF loading, CallGoes, InTransition
  <2>4. LanguageRests' /\ ActiveStands'
    BY <1>1, <1>3, <2>3 DEF ControllerInv, LanguageRests, ActiveStands,
         lifecycle, loading
  <2> QED
    BY <1>1, <1>4, <2>1, <2>2, <2>4, CallMoves DEF ControllerInv,
         ControllerTypes
<1>5. CASE /\ loads[calls[i].load].step = "done" /\ ~Stale(calls[i].gen)
           /\ previous' = Base /\ To(i, "switching")
  <2>1. /\ CallGoes(i, "switching") /\ "switching" \in CallSteps
    BY <1>1, <1>5, ToGoes DEF ControllerInv, CallSteps
  <2>2. /\ init = "ok" /\ calls[i].locale \in bundles /\ ~terminal
    BY <1>1, <1>2, <1>5 DEF ControllerInv, LoadInv, LoadsFetch,
         TerminalIsStale, Stale
  <2>3. ~Switching /\ Switching'
    BY <1>1, <2>1, TurnStep DEF loading, CallGoes, InTransition
  <2>4. language = Base
    BY <2>2, <2>3 DEF ControllerInv, LanguageRests
  <2>5. CallStands(i)'
    BY <1>1, <1>3, <1>5, <2>1, <2>2, <2>4 DEF CallGoes, CallStands,
         InTransition, loading
  <2>6. LanguageRests' /\ ActiveStands'
    BY <1>1, <1>3, <2>3 DEF ControllerInv, LanguageRests, ActiveStands,
         lifecycle, loading
  <2>7. previous' \in Locales \cup {None}
    BY <1>5, ControllerConstants DEF Base, ControllerInv, ControllerTypes
  <2> QED
    BY <1>1, <2>1, <2>5, <2>6, <2>7, CallMoves DEF ControllerInv,
         ControllerTypes
<1> QED
  BY <1>4, <1>5 DEF Loaded, Base

LEMMA ChangeLanguageInv ==
  ASSUME ControllerInv, NEW i, ChangeLanguage(i)
  PROVE  ControllerInv'
<1>1. /\ IsTurn(i) /\ i \in DOMAIN calls /\ calls[i].step = "switching"
      /\ UNCHANGED <<init, lifecycle, active, runtime, loading, previous>>
  BY DEF ChangeLanguage, IsTurn
<1>2. PICK s \in {"switched", "rejected"} :
        /\ To(i, s) /\ (s = "switched" => language' = calls[i].locale)
        /\ language' \in Locales \cup {None}
  BY <1>1, CallFields DEF ChangeLanguage, ControllerInv, ControllerTypes
<1>3. CallGoes(i, s) /\ s \in CallSteps
  BY <1>1, <1>2, ToGoes DEF ControllerInv, CallSteps
<1>4. Switching'
  BY <1>1, <1>3, TurnStep DEF loading, CallGoes, InTransition
<1>5. CallStands(i)'
  BY <1>1, <1>2, <1>3 DEF ControllerInv, CallStands, InTransition, CallGoes,
       Base, loading
<1>6. LanguageRests' /\ ActiveStands'
  BY <1>1, <1>4 DEF ControllerInv, LanguageRests, ActiveStands, loading
<1> QED
  BY <1>1, <1>2, <1>3, <1>5, <1>6, CallMoves DEF ControllerInv, ControllerTypes

LEMMA CommitInv ==
  ASSUME ControllerInv, NEW i, Commit(i)
  PROVE  ControllerInv'
<1>1. /\ IsTurn(i) /\ i \in DOMAIN calls /\ calls[i].step = "switched"
      /\ active' = calls[i].locale /\ active' \in Locales
      /\ runtime' \in {None, active'}
      /\ UNCHANGED <<init, lifecycle, language, loading, previous>>
  BY CallFields DEF Commit, IsTurn, ControllerInv
<1>2. CallGoes(i, "resolved") /\ "resolved" \in CallSteps
  BY <1>1, ToGoes DEF Commit, ControllerInv, CallSteps
<1>3. language = active' /\ active' \in bundles /\ init = "ok"
  BY <1>1 DEF ControllerInv, CallStands, InTransition
<1>4. CallStands(i)'
  BY <1>1, <1>2, <1>3 DEF CallStands, InTransition, CallGoes, loading
<1>5. LanguageRests' /\ ActiveStands'
  BY <1>1, <1>3, ControllerConstants DEF LanguageRests, ActiveStands, Base,
       loading
<1> QED
  BY <1>1, <1>2, <1>4, <1>5, CallMoves DEF ControllerInv, ControllerTypes

LEMMA RevertInv ==
  ASSUME ControllerInv, NEW i, Revert(i)
  PROVE  ControllerInv'
<1> DEFINE s == IF language = previous THEN "failed" ELSE "rollback"
<1>1. /\ IsTurn(i) /\ i \in DOMAIN calls /\ InTransition(i)
      /\ UNCHANGED <<init, lifecycle, active, language, runtime, loading,
                     previous>>
  BY DEF Revert, IsTurn, InTransition
<1>2. s \in {"failed", "rollback"} /\ s \in CallSteps /\ To(i, s)
  BY DEF Revert, CallSteps
<1>3. CallGoes(i, s)
  BY <1>1, <1>2, ToGoes DEF ControllerInv
<1>4. init = "ok" /\ previous = Base
  BY <1>1 DEF ControllerInv, CallStands
<1>5. Base' = Base
  BY <1>1 DEF Base
<1>6. CallStands(i)'
  BY <1>1, <1>2, <1>3, <1>4, <1>5 DEF CallStands, CallGoes
<1>7. Switching' \/ language' = Base'
  <2>1. CASE s = "failed"
    BY <1>1, <1>4, <1>5, <2>1
  <2>2. CASE s = "rollback"
    BY <1>1, <1>3, <2>2 DEF Switching, CallGoes
  <2> QED
    BY <1>2, <2>1, <2>2
<1>8. LanguageRests' /\ ActiveStands'
  BY <1>1, <1>7 DEF ControllerInv, LanguageRests, ActiveStands, loading
<1> HIDE DEF s
<1> QED
  BY <1>1, <1>2, <1>3, <1>6, <1>8, CallMoves DEF ControllerInv, ControllerTypes

LEMMA RollbackInv ==
  ASSUME ControllerInv, NEW i, Rollback(i)
  PROVE  ControllerInv'
<1>1. /\ IsTurn(i) /\ i \in DOMAIN calls /\ calls[i].step = "rollback"
      /\ To(i, "failed")
      /\ UNCHANGED <<init, disposed, active, runtime, loads, bundles, previous>>
  BY DEF Rollback, IsTurn
<1>2. CallGoes(i, "failed") /\ "failed" \in CallSteps
  BY <1>1, ToGoes DEF ControllerInv, CallSteps
<1>3. init = "ok" /\ previous = Base /\ Base' = Base
  BY <1>1 DEF ControllerInv, CallStands, InTransition, Base
<1>4. CallStands(i)'
  BY <1>2 DEF CallStands, CallGoes, InTransition
<1>5. ActiveStands'
  BY <1>1 DEF ControllerInv, ActiveStands
<1>6. CASE language' = previous /\ UNCHANGED <<terminal, generation, pending>>
  <2>1. LanguageRests'
    BY <1>3, <1>6 DEF LanguageRests
  <2> QED
    BY <1>1, <1>2, <1>4, <1>5, <1>6, <2>1, CallMoves
       DEF ControllerInv, ControllerTypes, lifecycle, loading
<1>7. CASE /\ language' \in {language, previous} /\ terminal' = TRUE
           /\ generation' = generation + 1
           /\ pending' = [l \in Locales |-> 0]
  <2>1. ControllerTypes'
    BY <1>1, <1>2, <1>7 DEF ControllerInv, ControllerTypes, CallGoes
  <2>2. LoadInv'
    BY <1>1, <1>7 DEF ControllerInv, LoadInv, LoadsArePending, PendingInRange,
         PendingIsUnsettled, OneLoadPerLocale, LoadsFetch, Closed
  <2>3. OneTurn' /\ \A j \in DOMAIN calls' : CallStands(j)'
    BY <1>1, <1>2, <1>4, TurnStep
  <2>4. TerminalIsStale'
    BY <1>2, <1>7, CallFields DEF ControllerInv, ControllerTypes,
         TerminalIsStale, CallGoes
  <2>5. LanguageRests'
    BY <1>7 DEF LanguageRests
  <2> QED
    BY <1>5, <2>1, <2>2, <2>3, <2>4, <2>5 DEF ControllerInv
<1> QED
  BY <1>6, <1>7 DEF Rollback

LEMMA DisposeInv ==
  ASSUME ControllerInv, Dispose
  PROVE  ControllerInv'
<1>1. /\ disposed' = TRUE /\ generation' = generation + 1
      /\ pending' = [l \in Locales |-> 0]
      /\ UNCHANGED <<init, terminal, active, language, runtime, loads, bundles,
                     calls, previous>>
  BY DEF Dispose
<1>2. ControllerTypes'
  BY <1>1 DEF ControllerInv, ControllerTypes
<1>3. LoadInv'
  BY <1>1 DEF ControllerInv, LoadInv, LoadsArePending, PendingInRange,
       PendingIsUnsettled, OneLoadPerLocale, LoadsFetch, Closed
<1>4. OneTurn'
  BY <1>1 DEF ControllerInv, OneTurn, Settled
<1>5. TerminalIsStale'
  BY <1>1, CallFields DEF ControllerInv, ControllerTypes, TerminalIsStale
<1>6. \A i \in DOMAIN calls' : CallStands(i)'
  BY <1>1 DEF ControllerInv, CallStands, InTransition, Base
<1>7. LanguageRests' /\ ActiveStands'
  BY <1>1 DEF ControllerInv, LanguageRests, Switching, Base, ActiveStands
<1> QED
  BY <1>2, <1>3, <1>4, <1>5, <1>6, <1>7 DEF ControllerInv

LEMMA GetTranslationsInv ==
  ASSUME ControllerInv, GetTranslations
  PROVE  ControllerInv'
<1>1. /\ runtime' = active
      /\ UNCHANGED <<init, lifecycle, active, language, loading, calls, previous>>
  BY DEF GetTranslations
<1>2. ControllerTypes'
  BY <1>1 DEF ControllerInv, ControllerTypes, lifecycle, loading
<1>3. LoadInv'
  BY <1>1 DEF ControllerInv, LoadInv, LoadsArePending, PendingInRange,
       PendingIsUnsettled, OneLoadPerLocale, LoadsFetch, Closed, Unsettled,
       lifecycle, loading
<1>4. OneTurn' /\ TerminalIsStale'
  BY <1>1 DEF ControllerInv, OneTurn, TerminalIsStale, Settled, lifecycle
<1>5. \A i \in DOMAIN calls' : CallStands(i)'
  BY <1>1 DEF ControllerInv, CallStands, InTransition, Base, lifecycle, loading
<1>6. LanguageRests' /\ ActiveStands'
  BY <1>1 DEF ControllerInv, LanguageRests, Switching, Base, ActiveStands,
       lifecycle, loading
<1> QED
  BY <1>2, <1>3, <1>4, <1>5, <1>6 DEF ControllerInv

LEMMA ControllerStep ==
  ASSUME ControllerInv, [ControllerNext]_vars
  PROVE  ControllerInv'
<1>1. CASE \E k \in DOMAIN loads : BeginLoad(k) \/ EndLoad(k)
  <2>1. LoadTypes' /\ LoadInv' /\ LoadsKept
    BY <1>1, BeginLoadInv, EndLoadInv DEF ControllerInv
  <2>2. UNCHANGED <<init, lifecycle, active, language, runtime, calls, previous>>
    BY <1>1 DEF BeginLoad, EndLoad
  <2> QED
    BY <2>1, <2>2, LoadsMove
<1>2. CASE \E l \in Locales : Preload(l)
  <2>1. PICK l \in Locales : Preload(l)
    BY <1>2
  <2>2. UNCHANGED <<init, lifecycle, active, language, runtime, calls, previous>>
    BY <2>1 DEF Preload
  <2>3. LoadTypes' /\ LoadInv' /\ LoadsKept
    BY <2>1, <2>2, LoadLocaleInv DEF Preload, ControllerInv
  <2> QED
    BY <2>2, <2>3, LoadsMove
<1>3. CASE UNCHANGED vars
  <2>1. UNCHANGED <<init, lifecycle, active, language, runtime, calls, previous>>
    BY <1>3 DEF vars
  <2>2. LoadTypes' /\ LoadInv' /\ LoadsKept
    BY <1>3 DEF vars, ControllerInv, ControllerTypes, LoadTypes, LoadInv,
         LoadsArePending, PendingInRange, PendingIsUnsettled,
         OneLoadPerLocale, LoadsFetch, LoadsKept, Closed, Unsettled,
         lifecycle, loading
  <2> QED
    BY <2>1, <2>2, LoadsMove
<1> QED
  BY <1>1, <1>2, <1>3, InitializeInv, ActivateInv, BeginCallInv, LoadedInv,
     ChangeLanguageInv, CommitInv, RevertInv, RollbackInv, DisposeInv,
     GetTranslationsInv
     DEF ControllerNext, Progress

----------------------------------------------------------------------------
LEMMA EffectIsController ==
  ASSUME Effect, selected \in Locales PROVE [ControllerNext]_vars
BY DEF Effect, WatchPendingOrNew, WatchNew, ControllerNext

\* The Provider only selects locales.
SelectsLocales == selected \in Locales \cup {None}

LEMMA SelectedStays == SelectsLocales /\ [ProviderNext]_all => SelectsLocales'
BY  DEF SelectsLocales, ProviderNext, ProviderProgress, Mount, Select,
     UseDirectly, Render, RunEffect, RunEffectAgain, Effect, Unmount, Notify,
     all, provider

LEMMA ProviderIsController ==
  ProviderSpec => Init /\ [][ControllerNext]_vars
<1>1. ProviderSpec => []SelectsLocales
  <2>1. ProviderInit => SelectsLocales
    BY DEF ProviderInit, SelectsLocales
  <2> QED
    BY <2>1, SelectedStays, PTL DEF ProviderSpec
<1>2. ProviderInit => Init
  BY DEF ProviderInit
<1>3. SelectsLocales /\ [ProviderNext]_all => [ControllerNext]_vars
  <2> SUFFICES ASSUME SelectsLocales, [ProviderNext]_all
               PROVE  [ControllerNext]_vars
    OBVIOUS
  <2>1. CASE ProviderProgress
    <3>1. CASE Progress
      BY <3>1 DEF ControllerNext
    <3>2. CASE Render \/ \E w \in DOMAIN watches : Notify(w)
      BY <3>2 DEF Render, Notify
    <3>3. CASE RunEffect
      BY <3>3, EffectIsController DEF RunEffect, Mounted, SelectsLocales
    <3> QED
      BY <2>1, <3>1, <3>2, <3>3 DEF ProviderProgress
  <2>2. CASE \E l \in Locales : Mount(l) \/ Select(l) \/ UseDirectly(l)
    BY <2>2 DEF Mount, Select, UseDirectly, ControllerNext
  <2>3. CASE RunEffectAgain
    BY <2>3, EffectIsController DEF RunEffectAgain, Mounted, SelectsLocales
  <2>4. CASE Unmount \/ UNCHANGED all
    BY <2>4 DEF Unmount, all
  <2>5. CASE Dispose \/ GetTranslations
    BY <2>5 DEF ControllerNext
  <2> QED
    BY <2>1, <2>2, <2>3, <2>4, <2>5 DEF ProviderNext
<1> QED
  BY <1>2, <1>3, <1>1, PTL DEF ProviderSpec

LEMMA ControllerAlways == ProviderSpec => []ControllerInv
<1>1. ControllerInv /\ [ControllerNext]_vars => ControllerInv'
  BY ControllerStep
<1> QED
  BY <1>1, ControllerStarts, ProviderIsController, PTL

(* However loads are shared, retried or late, and wherever a change fails   *)
(* or a disposal falls (createController): between transitions the language *)
(* of the instance is the active locale's, translations render in the       *)
(* active locale, and its resources are loaded.                             *)
THEOREM LanguageFollows == ProviderSpec => []LanguageFollowsActive
<1>1. ControllerInv => LanguageFollowsActive
  BY  DEF ControllerInv, LoadInv, LanguageRests, ActiveStands, CallStands,
       Base, LanguageFollowsActive, ActiveIsLoaded
<1> QED
  BY <1>1, ControllerAlways, PTL

----------------------------------------------------------------------------
(* The controller implements LocaleSelection.                              *)

\* The activations that wait are the calls from the first open one on.
Waits ==
  /\ FirstOpen \in 1..(Len(calls) + 1)
  /\ \A i \in DOMAIN calls : Settled(i) <=> i < FirstOpen
  /\ Waiting \in Seq(Locales)
  /\ Len(Waiting) = Len(calls) + 1 - FirstOpen
  /\ \A k \in 1..Len(Waiting) : Waiting[k] = calls[FirstOpen - 1 + k].locale

LEMMA CallsWait == ControllerInv => Waits
<1> SUFFICES ASSUME ControllerInv PROVE Waits
  OBVIOUS
<1> DEFINE m == Len(calls) + 1 - FirstOpen
<1>1. \E n \in 1..(Len(calls) + 1) :
        \A i \in DOMAIN calls : Settled(i) <=> i < n
  BY DEF ControllerInv, OneTurn
<1>2. /\ FirstOpen \in 1..(Len(calls) + 1)
      /\ \A i \in DOMAIN calls : Settled(i) <=> i < FirstOpen
  BY <1>1 DEF FirstOpen
<1>3. m \in Nat /\ \A k \in 1..m : calls[FirstOpen - 1 + k].locale \in Locales
  BY <1>2, CallFields DEF ControllerInv
<1> HIDE DEF m
<1>4. Waiting = [k \in 1..m |-> calls[FirstOpen - 1 + k].locale]
  BY DEF Waiting, m
<1>5. Waiting \in [1..m -> Locales]
  BY <1>3, <1>4
<1>6. Waiting \in Seq(Locales)
  BY <1>3, <1>5, SeqDef
<1>7. Len(Waiting) = m
  BY <1>3, <1>5, <1>6, LenProperties
<1> QED
  BY <1>2, <1>4, <1>6, <1>7 DEF m, Waits

\* A step of a turn that does not settle the call keeps it waiting; when it
\* settles, the call was the head of those that wait.
LEMMA WaitingMoves ==
  ASSUME ControllerInv, ControllerInv', NEW i, IsTurn(i), NEW s \in CallSteps,
         CallGoes(i, s)
  PROVE  /\ s \notin {"resolved", "failed"} => Waiting' = Waiting
         /\ s \in {"resolved", "failed"} =>
              /\ Waiting # <<>> /\ Waiting' = Tail(Waiting)
              /\ Head(Waiting) = calls[i].locale
<1>1. /\ i \in 1..Len(calls) /\ DOMAIN calls = 1..Len(calls)
      /\ Len(calls) \in Nat /\ Len(calls') = Len(calls)
      /\ DOMAIN calls' = DOMAIN calls
      /\ \A j \in DOMAIN calls : Settled(j) <=> j < i
  BY TurnIsAlone, CallFields DEF Settled, CallGoes, ControllerInv
<1>2. Waits /\ Waits'
  BY CallsWait, PTL
<1>3. /\ FirstOpen \in 1..(Len(calls) + 1) /\ FirstOpen' \in 1..(Len(calls) + 1)
      /\ \A j \in DOMAIN calls : Settled(j) <=> j < FirstOpen
      /\ \A j \in DOMAIN calls : Settled(j)' <=> j < FirstOpen'
  BY <1>1, <1>2 DEF Waits
<1>4. FirstOpen = i
  BY <1>1, <1>3
<1>5. /\ Waiting \in Seq(Locales) /\ Len(Waiting) = Len(calls) + 1 - i
      /\ \A k \in 1..Len(Waiting) : Waiting[k] = calls[i - 1 + k].locale
  BY <1>2, <1>4 DEF Waits
<1>6. /\ Waiting' \in Seq(Locales)
       /\ Len(Waiting') = Len(calls) + 1 - FirstOpen'
       /\ \A k \in 1..Len(Waiting') :
            Waiting'[k] = calls'[FirstOpen' - 1 + k].locale
  BY <1>1, <1>2 DEF Waits
<1>7. \A j \in DOMAIN calls : j # i => (Settled(j)' <=> Settled(j))
  BY DEF CallGoes, Settled
<1>8. \A j \in DOMAIN calls : calls'[j].locale = calls[j].locale
  BY DEF CallGoes
<1>9. CASE s \notin {"resolved", "failed"}
  <2>1. ~Settled(i)'
    BY <1>9 DEF CallGoes, Settled
  <2>2. FirstOpen' = i
    BY <1>1, <1>7, <1>3, <2>1
  <2>3. \A k \in 1..Len(Waiting) : i - 1 + k \in DOMAIN calls
    BY <1>1, <1>5
  <2>4. Len(Waiting') = Len(Waiting)
        /\ \A k \in 1..Len(Waiting) : Waiting'[k] = Waiting[k]
    BY <1>8, <1>5, <1>6, <2>2, <2>3
  <2>5. Waiting' = Waiting
    BY <1>5, <1>6, <2>4, SeqEqual
  <2> QED
    BY <1>9, <2>5
<1>10. CASE s \in {"resolved", "failed"}
  <2>1. Settled(i)'
    BY <1>10 DEF CallGoes, Settled
  <2>2. FirstOpen' = i + 1
    <3>1. i < FirstOpen'
      BY <1>1, <1>3, <2>1
    <3>2. i + 1 \in DOMAIN calls => ~(Settled(i + 1)')
      BY <1>1, <1>7
    <3>3. i + 1 \in DOMAIN calls => ~(i + 1 < FirstOpen')
      BY <1>3, <3>2
    <3> QED
      BY <1>1, <1>3, <3>1, <3>3
  <2>3. Waiting # <<>> /\ Head(Waiting) = calls[i].locale
    BY <1>1, <1>5
  <2>4. /\ Tail(Waiting) \in Seq(Locales)
        /\ Len(Tail(Waiting)) = Len(calls) - i
        /\ \A k \in 1..Len(Tail(Waiting)) : Tail(Waiting)[k] = Waiting[k + 1]
    BY <1>1, <1>5, <2>3, HeadTailProperties
  <2>5. \A k \in 1..(Len(calls) - i) :
          /\ i + k \in DOMAIN calls /\ k + 1 \in 1..Len(Waiting)
          /\ i - 1 + (k + 1) = i + k /\ i + 1 - 1 + k = i + k
    BY <1>1, <1>5
  <2>6. Len(Waiting') = Len(Tail(Waiting))
        /\ \A k \in 1..Len(Waiting') : Waiting'[k] = Tail(Waiting)[k]
    <3>1. i \in Int /\ Len(calls) \in Int
      BY <1>1
    <3>2. /\ Len(Waiting') = Len(calls) + 1 - (i + 1)
          /\ \A k \in 1..Len(Waiting') :
               Waiting'[k] = calls'[(i + 1) - 1 + k].locale
      BY <1>6, <2>2, Zenon
    <3>3. Len(Waiting') = Len(calls) - i
      BY <3>1, <3>2
    <3>4. ASSUME NEW k \in 1..(Len(calls) - i)
          PROVE  Waiting'[k] = Tail(Waiting)[k]
      <4>1. k \in Int /\ k \in 1..Len(Waiting')
        BY <3>3, <3>1
      <4>2. (i + 1) - 1 + k = i + k
        BY <3>1, <4>1
      <4>3. Waiting'[k] = calls'[i + k].locale
        BY <3>2, <4>1, <4>2
      <4>4. Tail(Waiting)[k] = calls[i + k].locale
        BY <1>5, <2>4, <2>5
      <4> QED
        BY <1>8, <2>5, <4>3, <4>4
    <3> QED
      BY <2>4, <3>3, <3>4
  <2>7. Waiting' = Tail(Waiting)
    BY <1>6, <2>4, <2>6, SeqEqual
  <2> QED
    BY <1>10, <2>3, <2>7
<1> QED
  BY <1>9, <1>10

\* A call that is requested waits behind the others.
LEMMA WaitingGrows ==
  ASSUME ControllerInv, ControllerInv', NEW l \in Locales, Activate(l)
  PROVE  Waiting' = Append(Waiting, l)
<1> DEFINE new == [locale |-> l, gen |-> generation, step |-> "queued",
                   load |-> 0]
<1>1. PICK n \in Nat : n = Len(calls)
  BY CallFields DEF ControllerInv
<1>2. /\ new \in Calls /\ new.locale = l /\ new.step = "queued"
  BY DEF ControllerInv, ControllerTypes, Calls, CallSteps
<1>3. calls' = Append(calls, new)
  BY DEF Activate
<1> HIDE DEF new
<1>4. /\ Len(calls') = n + 1 /\ calls'[n + 1] = new
      /\ \A k \in 1..n : calls'[k] = calls[k]
      /\ DOMAIN calls = 1..n /\ n \in Nat /\ calls' \in Seq(Calls)
  BY <1>1, <1>2, <1>3, AppendProperties, CallFields
     DEF ControllerInv, ControllerTypes
<1>5. DOMAIN calls' = 1..(n + 1)
  BY <1>4
<1>6. Waits /\ Waits'
  BY CallsWait, PTL
<1>7. /\ FirstOpen \in 1..(n + 1) /\ FirstOpen' \in 1..(n + 1 + 1)
      /\ \A j \in 1..n : Settled(j) <=> j < FirstOpen
      /\ \A j \in 1..(n + 1) : Settled(j)' <=> j < FirstOpen'
  BY <1>1, <1>4, <1>5, <1>6 DEF Waits
<1>8. /\ Waiting \in Seq(Locales) /\ Len(Waiting) = n + 1 - FirstOpen
      /\ \A k \in 1..Len(Waiting) : Waiting[k] = calls[FirstOpen - 1 + k].locale
  BY <1>1, <1>6 DEF Waits
<1>9. /\ Waiting' \in Seq(Locales) /\ Len(Waiting') = n + 1 + 1 - FirstOpen'
      /\ \A k \in 1..Len(Waiting') :
           Waiting'[k] = calls'[FirstOpen' - 1 + k].locale
  BY <1>4, <1>6 DEF Waits
<1>10. /\ \A j \in 1..n : Settled(j)' <=> Settled(j)
      /\ ~(Settled(n + 1)')
  <2>1. calls'[n + 1].step = "queued"
    BY <1>2, <1>4
  <2>2. ~(Settled(n + 1)')
    BY <2>1 DEF Settled
  <2>3. \A j \in 1..n : Settled(j)' <=> Settled(j)
    BY <1>4 DEF Settled
  <2> QED
    BY <2>2, <2>3
<1>11. FirstOpen' = FirstOpen
  <2>1. n \in Nat /\ n + 1 \in 1..(n + 1)
    BY <1>4
  <2>2. FirstOpen' <= n + 1
    BY <1>7, <1>10, <2>1
  <2>3. CASE FirstOpen \in 1..n
    <3>1. ~(FirstOpen < FirstOpen')
      BY <1>7, <1>10, <2>1, <2>3
    <3>2. FirstOpen' < FirstOpen => FirstOpen' \in 1..n
      BY <1>7, <2>1, <2>3
    <3>3. ~(FirstOpen' < FirstOpen)
      BY <1>7, <1>10, <2>1, <3>2
    <3> QED
      BY <1>7, <2>1, <3>1, <3>3
  <2>4. CASE FirstOpen = n + 1
    <3>1. FirstOpen' \in 1..n => FALSE
      BY <1>7, <1>10, <2>1, <2>4
    <3> QED
      BY <1>7, <2>1, <2>2, <2>4, <3>1
  <2> QED
    BY <1>7, <2>1, <2>3, <2>4
<1>12. /\ Append(Waiting, l) \in Seq(Locales)
       /\ Len(Append(Waiting, l)) = Len(Waiting) + 1
       /\ \A k \in 1..Len(Waiting) : Append(Waiting, l)[k] = Waiting[k]
       /\ Append(Waiting, l)[Len(Waiting) + 1] = l
  BY <1>8, AppendProperties
<1>13. Len(Waiting') = Len(Waiting) + 1
  BY <1>4, <1>7, <1>8, <1>9, <1>11
<1>14. /\ n \in Nat /\ FirstOpen \in 1..(n + 1)
       /\ Len(Waiting) = n + 1 - FirstOpen
  BY <1>4, <1>7, <1>8
<1>15. ASSUME NEW k \in 1..(Len(Waiting) + 1)
       PROVE  Waiting'[k] = Append(Waiting, l)[k]
  <2>1. Waiting'[k] = calls'[FirstOpen - 1 + k].locale
    BY <1>9, <1>11, <1>13
  <2>2. CASE k = Len(Waiting) + 1
    <3>1. FirstOpen - 1 + k = n + 1
      BY <1>14, <2>2
    <3> QED
      BY <1>2, <1>4, <1>12, <2>1, <2>2, <3>1
  <2>3. CASE k # Len(Waiting) + 1
    <3>1. k \in 1..Len(Waiting) /\ FirstOpen - 1 + k \in 1..n
      BY <1>14, <2>3
    <3> QED
      BY <1>4, <1>8, <1>12, <2>1, <3>1
  <2> QED
    BY <2>2, <2>3
<1> QED
  BY <1>9, <1>12, <1>13, <1>15, SeqEqual

\* A turn serves or refuses the head of those that wait, or goes on with it.
LEMMA TurnServes ==
  ASSUME ControllerInv, ControllerInv', NEW i, IsTurn(i), NEW s \in CallSteps,
         To(i, s), active' = (IF s = "resolved" THEN calls[i].locale ELSE active),
         s = "resolved" => ~Closed,
         Closed' = Closed \/ (s = "failed" /\ Closed' = TRUE)
  PROVE  [Selection!Next]_(Selection!vars)
<1>1. i \in DOMAIN calls /\ CallGoes(i, s)
  BY ToGoes DEF IsTurn, ControllerInv
<1>2. CASE s = "resolved"
  BY <1>1, <1>2, WaitingMoves DEF Selection!Next, Selection!Serve
<1>3. CASE s = "failed"
  BY <1>1, <1>3, WaitingMoves DEF Selection!Next, Selection!Refuse
<1>4. CASE s \notin {"resolved", "failed"}
  BY <1>1, <1>4, WaitingMoves DEF Selection!vars
<1> QED
  BY <1>2, <1>3, <1>4

LEMMA SelectionStep ==
  ASSUME ControllerInv, ControllerInv', [ControllerNext]_vars
  PROVE  [Selection!Next]_(Selection!vars)
<1>1. CASE UNCHANGED <<calls, active, disposed, terminal>>
  BY <1>1 DEF Selection!vars, Waiting, FirstOpen, Settled, Closed
<1>2. CASE \E k \in DOMAIN loads : BeginLoad(k) \/ EndLoad(k)
  BY <1>1, <1>2 DEF BeginLoad, EndLoad, lifecycle
<1>3. CASE Initialize \/ GetTranslations \/ UNCHANGED vars
  BY <1>1, <1>3 DEF Initialize, GetTranslations, lifecycle, vars
<1>4. CASE \E l \in Locales : Preload(l)
  BY <1>1, <1>4 DEF Preload, lifecycle
<1>5. CASE \E l \in Locales : Activate(l)
  <2>1. PICK l \in Locales : Activate(l)
    BY <1>5
  <2>2. /\ Waiting' = Append(Waiting, l) /\ ~Closed
        /\ active' = active /\ Closed' = Closed
    BY <2>1, WaitingGrows DEF Activate, Closed, lifecycle
  <2> QED
    BY <2>2 DEF Selection!Next, Selection!Request
<1>6. CASE Dispose
  <2>1. Waiting' = Waiting /\ active' = active /\ Closed'
    BY <1>6 DEF Dispose, Waiting, FirstOpen, Settled, Closed
  <2> QED
    BY <2>1 DEF Selection!Next, Selection!Close, Closed
<1>7. ASSUME NEW i \in DOMAIN calls, BeginCall(i)
      PROVE  [Selection!Next]_(Selection!vars)
  <2>1. IsTurn(i) /\ UNCHANGED <<disposed, terminal, active>>
    BY <1>7 DEF BeginCall, lifecycle
  <2>2. CASE To(i, "failed")
    BY <2>1, <2>2, TurnServes DEF CallSteps, Closed
  <2>3. CASE ~To(i, "failed")
    <3>1. CallGoes(i, "loading") /\ "loading" \in CallSteps
      BY <1>7, <2>3, BeginCallGoes DEF CallSteps, BeginCall
    <3>2. Waiting' = Waiting
      BY <2>1, <3>1, WaitingMoves
    <3> QED
      BY <2>1, <3>2 DEF Selection!vars, Closed
  <2> QED
    BY <2>2, <2>3
<1>8. ASSUME NEW i \in DOMAIN calls, Loaded(i) \/ ChangeLanguage(i) \/ Revert(i)
      PROVE  [Selection!Next]_(Selection!vars)
  <2>1. /\ IsTurn(i) /\ UNCHANGED <<disposed, terminal, active>>
        /\ \E s \in CallSteps \ {"resolved"} : To(i, s)
    BY <1>8 DEF Loaded, ChangeLanguage, Revert, lifecycle, CallSteps
  <2>2. PICK s \in CallSteps \ {"resolved"} : To(i, s)
    BY <2>1
  <2>3. Closed' = Closed
    BY <2>1 DEF Closed
  <2> QED
    BY <2>1, <2>2, <2>3, TurnServes
<1>9. ASSUME NEW i \in DOMAIN calls, Commit(i)
      PROVE  [Selection!Next]_(Selection!vars)
  <2>1. /\ IsTurn(i) /\ UNCHANGED <<disposed, terminal>>
        /\ active' = calls[i].locale /\ To(i, "resolved")
        /\ "resolved" \in CallSteps
    BY <1>9 DEF Commit, lifecycle, CallSteps
  <2>2. ~Closed
    BY <1>9 DEF Commit, Stale, Closed, ControllerInv, TerminalIsStale
  <2> QED
    BY <2>1, <2>2, TurnServes DEF Closed
<1>10. ASSUME NEW i \in DOMAIN calls, Rollback(i)
       PROVE  [Selection!Next]_(Selection!vars)
  <2>1. /\ IsTurn(i) /\ UNCHANGED <<disposed, active>>
        /\ To(i, "failed") /\ "failed" \in CallSteps
        /\ terminal' \in {terminal, TRUE}
    BY <1>10 DEF Rollback, CallSteps
  <2>2. Closed' \in {Closed, TRUE} /\ active' = active
    BY <2>1 DEF Closed, ControllerInv, ControllerTypes
  <2>3. Closed' = Closed \/ Closed' = TRUE
    BY <2>2
  <2> QED
    BY <2>1, <2>2, <2>3, TurnServes
<1> QED
  BY <1>2, <1>3, <1>4, <1>5, <1>6, <1>7, <1>8, <1>9, <1>10
     DEF ControllerNext, Progress

(* Activations are served one at a time and in the order of the calls, and  *)
(* none takes effect once the controller is disposed or terminal, although  *)
(* each waits for loads, changes and rollbacks that settle when they like   *)
(* (transitionTail): the controller implements LocaleSelection.             *)
THEOREM ControllerServes == ProviderSpec => ServedInOrder
<1>1. Init => Selection!Init
  <2> SUFFICES ASSUME Init PROVE Selection!Init
    OBVIOUS
  <2>1. calls = <<>> /\ active = None /\ ~Closed
    BY DEF Init, Closed
  <2>2. Waits
    BY ControllerStarts, CallsWait
  <2>3. Len(calls) = 0 /\ FirstOpen = 1
    BY <2>1, <2>2 DEF Waits
  <2>4. Waiting = <<>>
    BY <2>2, <2>3 DEF Waits
  <2> QED
    BY <2>1, <2>4 DEF Selection!Init
<1>2. ControllerInv /\ ControllerInv' /\ [ControllerNext]_vars
        => [Selection!Next]_(Selection!vars)
  BY SelectionStep
<1> QED
  BY <1>1, <1>2, ControllerAlways, ProviderIsController, PTL
     DEF ServedInOrder, Selection!Spec

----------------------------------------------------------------------------
(* The Provider over the controller.                                       *)

Resolved(i) == calls[i].step = "resolved"

\* The active locale is the one of the call that resolved last.
ActiveIsServed ==
  /\ active # None =>
       \E i \in DOMAIN calls : Resolved(i) /\ calls[i].locale = active
  /\ \A i \in DOMAIN calls :
       Resolved(i) /\ (\A j \in DOMAIN calls : j > i => ~Resolved(j)) =>
         active = calls[i].locale

Watches == [call : Nat, locale : Locales, live : BOOLEAN, told : BOOLEAN]

ProviderTypes ==
  /\ selected \in Locales \cup {None} /\ ready \in Locales \cup {None}
  /\ screen \in Locales \cup {"nothing", "error", "unmounted"}
  /\ watches \in Seq(Watches)
  /\ watch \in Nat /\ (watch # 0 => watch \in DOMAIN watches)

\* An effect watches a call for its locale.
WatchesCalls ==
  \A w \in DOMAIN watches :
    /\ watches[w].call \in DOMAIN calls
    /\ calls[watches[w].call].locale = watches[w].locale

BeforeMount ==
  selected = None =>
    ready = None /\ watches = <<>> /\ watch = 0 /\ screen = "nothing"

\* Once the Provider is mounted every call is for a selection: a locale is
\* requested again only after a failure, the last calls are for the selection,
\* and one that has not settled is the pending one.
CallsForSelections ==
  selected # None =>
    \A i \in DOMAIN calls :
      /\ \A j \in DOMAIN calls :
           i < j /\ calls[i].locale = calls[j].locale =>
             calls[i].step = "failed"
      /\ \A j \in DOMAIN calls :
           i < j /\ calls[i].locale = selected => calls[j].locale = selected
      /\ calls[i].locale = selected /\ ~Settled(i) =>
           IsPending(selected) /\ watches[watch].call = i

AllSettled == \A i \in DOMAIN calls : Settled(i)

\* What is ready was requested; when it is the selection, it has been served
\* and nothing else is requested.
ReadyIsServed ==
  /\ ready # None => \E i \in DOMAIN calls : calls[i].locale = ready
  /\ selected # None /\ ready = selected => active = selected /\ AllSettled

Shown ==
  screen \in Locales =>
    screen = selected /\ active = selected /\ ~terminal /\ AllSettled

ProviderInv ==
  /\ ActiveIsServed /\ ProviderTypes /\ WatchesCalls /\ BeforeMount
  /\ CallsForSelections /\ ReadyIsServed /\ Shown

\* What the controller does by itself to the calls and the active locale.
CallsProgress ==
  /\ DOMAIN calls' = DOMAIN calls
  /\ \A j \in DOMAIN calls :
       /\ calls'[j].locale = calls[j].locale
       /\ Settled(j) => calls'[j] = calls[j]
  /\ \/ /\ active' = active
        /\ \A j \in DOMAIN calls : calls'[j].step = "resolved" => Resolved(j)
     \/ \E i \in DOMAIN calls :
          /\ IsTurn(i) /\ calls'[i].step = "resolved"
          /\ active' = calls[i].locale
          /\ \A j \in DOMAIN calls : j # i => calls'[j] = calls[j]
  /\ AllSettled => active' = active /\ terminal' = terminal

LEMMA ControllerProgress ==
  ASSUME ControllerInv,
         Progress \/ Dispose \/ GetTranslations \/ UNCHANGED vars
  PROVE  CallsProgress
<1>1. CASE UNCHANGED <<calls, active, terminal>>
  BY <1>1 DEF CallsProgress, Resolved
<1>2. CASE \E k \in DOMAIN loads : BeginLoad(k) \/ EndLoad(k)
  BY <1>1, <1>2 DEF BeginLoad, EndLoad, lifecycle
<1>3. CASE Initialize \/ Dispose \/ GetTranslations \/ UNCHANGED vars
  BY <1>1, <1>3 DEF Initialize, Dispose, GetTranslations, lifecycle, vars
<1>4. ASSUME NEW i \in DOMAIN calls, IsTurn(i), NEW s \in CallSteps,
             CallGoes(i, s),
             active' = (IF s = "resolved" THEN calls[i].locale ELSE active)
      PROVE  CallsProgress
  <2>1. ~AllSettled /\ ~Settled(i)
    BY <1>4 DEF AllSettled, IsTurn
  <2>2. CASE s = "resolved"
    BY <1>4, <2>1, <2>2 DEF CallGoes, CallsProgress
  <2>3. CASE s # "resolved"
    BY <1>4, <2>1, <2>3 DEF CallGoes, CallsProgress, Resolved
  <2> QED
    BY <2>2, <2>3
<1>5. ASSUME NEW i \in DOMAIN calls, BeginCall(i) PROVE CallsProgress
  <2>1. IsTurn(i) /\ UNCHANGED active
    BY <1>5 DEF BeginCall
  <2>2. CASE Stale(calls[i].gen)
    <3>1. CallGoes(i, "failed") /\ "failed" \in CallSteps
      BY <1>5, <2>2, ToGoes DEF BeginCall, ControllerInv, CallSteps
    <3> QED
      BY <1>4, <2>1, <3>1
  <2>3. CASE ~Stale(calls[i].gen)
    <3>1. CallGoes(i, "loading") /\ "loading" \in CallSteps
      BY <1>5, <2>3, BeginCallGoes DEF CallSteps
    <3> QED
      BY <1>4, <2>1, <3>1
  <2> QED
    BY <2>2, <2>3
<1>6. ASSUME NEW i \in DOMAIN calls,
             Loaded(i) \/ ChangeLanguage(i) \/ Revert(i) \/ Rollback(i)
      PROVE  CallsProgress
  <2>1. /\ IsTurn(i) /\ active' = active
        /\ \E s \in CallSteps \ {"resolved"} : To(i, s)
    BY <1>6 DEF Loaded, ChangeLanguage, Revert, Rollback, CallSteps
  <2>2. PICK s \in CallSteps \ {"resolved"} : To(i, s)
    BY <2>1
  <2>3. CallGoes(i, s)
    BY <2>2, ToGoes DEF ControllerInv
  <2> QED
    BY <1>4, <2>1, <2>3
<1>7. ASSUME NEW i \in DOMAIN calls, Commit(i) PROVE CallsProgress
  <2>1. /\ IsTurn(i) /\ active' = calls[i].locale
        /\ To(i, "resolved") /\ "resolved" \in CallSteps
    BY <1>7 DEF Commit, CallSteps
  <2>2. CallGoes(i, "resolved")
    BY <2>1, ToGoes DEF ControllerInv
  <2> QED
    BY <1>4, <2>1, <2>2
<1> QED
  BY <1>2, <1>3, <1>5, <1>6, <1>7 DEF Progress

LEMMA ServedStays ==
  ASSUME ControllerInv, ActiveIsServed, CallsProgress
  PROVE  ActiveIsServed'
<1>1. CASE /\ active' = active
           /\ \A j \in DOMAIN calls : calls'[j].step = "resolved" => Resolved(j)
  <2>1. \A j \in DOMAIN calls : Resolved(j)' <=> Resolved(j)
    BY <1>1 DEF CallsProgress, Resolved, Settled
  <2> QED
    BY <1>1, <2>1 DEF CallsProgress, ActiveIsServed
<1>2. ASSUME NEW i \in DOMAIN calls, IsTurn(i), calls'[i].step = "resolved",
             active' = calls[i].locale,
             \A j \in DOMAIN calls : j # i => calls'[j] = calls[j]
      PROVE  ActiveIsServed'
  <2>1. \A j \in DOMAIN calls : j > i => calls[j].step = "queued"
    BY <1>2, TurnIsAlone DEF ControllerInv
  <2>2. \A j \in DOMAIN calls : j > i => ~(Resolved(j)')
    BY <1>2, <2>1, CallFields DEF Resolved, ControllerInv
  <2>3. Resolved(i)' /\ calls'[i].locale = active' /\ DOMAIN calls' = DOMAIN calls
    BY <1>2 DEF Resolved, CallsProgress
  <2>4. ASSUME NEW k \in DOMAIN calls, Resolved(k)',
               \A j \in DOMAIN calls : j > k => ~(Resolved(j)')
        PROVE  k = i
    BY <2>2, <2>3, <2>4, CallFields DEF ControllerInv
  <2> QED
    BY <2>3, <2>4 DEF ActiveIsServed
<1> QED
  BY <1>1, <1>2 DEF CallsProgress

\* The Provider relies on nothing the controller does by itself.
LEMMA ProviderRests ==
  ASSUME ControllerInv, ProviderInv, CallsProgress, UNCHANGED provider
  PROVE  ProviderInv'
<1>1. ActiveIsServed'
  BY ServedStays DEF ProviderInv
<1>2. ProviderTypes' /\ WatchesCalls' /\ BeforeMount'
  BY  DEF ProviderInv, ProviderTypes, WatchesCalls, BeforeMount, provider,
       CallsProgress
<1>3. \A j \in DOMAIN calls : Settled(j) => Settled(j)'
  BY DEF CallsProgress, Settled
<1>4. CallsForSelections'
  BY <1>3 DEF ProviderInv, CallsForSelections, CallsProgress, provider,
       IsPending, Settled
<1>5. AllSettled => AllSettled'
  BY <1>3 DEF AllSettled, CallsProgress
<1>6. ReadyIsServed' /\ Shown'
  BY <1>5 DEF ProviderInv, ReadyIsServed, Shown, CallsProgress, provider
<1> QED
  BY <1>1, <1>2, <1>4, <1>6 DEF ProviderInv

\* What a request makes of the calls.
LEMMA ActivateAdds ==
  ASSUME ControllerInv, NEW l \in Locales, Activate(l)
  PROVE  /\ DOMAIN calls = 1..Len(calls) /\ Len(calls) \in Nat
         /\ DOMAIN calls' = 1..(Len(calls) + 1)
         /\ \A j \in DOMAIN calls : j \in DOMAIN calls' /\ calls'[j] = calls[j]
         /\ calls'[Len(calls) + 1].locale = l
         /\ calls'[Len(calls) + 1].step = "queued"
         /\ active' = active /\ terminal' = terminal
<1> DEFINE new == [locale |-> l, gen |-> generation, step |-> "queued",
                   load |-> 0]
<1>1. /\ new \in Calls /\ new.locale = l /\ new.step = "queued"
  BY DEF ControllerInv, ControllerTypes, Calls, CallSteps
<1>2. calls' = Append(calls, new) /\ active' = active /\ terminal' = terminal
  BY DEF Activate, lifecycle
<1> HIDE DEF new
<1>3. /\ calls' \in Seq(Calls) /\ Len(calls') = Len(calls) + 1
      /\ \A k \in 1..Len(calls) : calls'[k] = calls[k]
      /\ calls'[Len(calls) + 1] = new
  BY <1>1, <1>2, AppendProperties DEF ControllerInv, ControllerTypes
<1> QED
  BY <1>1, <1>2, <1>3, CallFields DEF ControllerInv

LEMMA ServedAfterRequest ==
  ASSUME ControllerInv, ActiveIsServed, NEW l \in Locales, Activate(l)
  PROVE  ActiveIsServed'
<1>1. \A j \in DOMAIN calls' : j \in DOMAIN calls \/ j = Len(calls) + 1
  BY ActivateAdds
<1>2. \A j \in DOMAIN calls : Resolved(j)' <=> Resolved(j)
  BY ActivateAdds DEF Resolved
<1>3. \A j \in DOMAIN calls' : Resolved(j)' => j \in DOMAIN calls
  BY <1>1, ActivateAdds DEF Resolved
<1> QED
  BY <1>1, <1>2, <1>3, ActivateAdds DEF ActiveIsServed

LEMMA DirectInv ==
  ASSUME ControllerInv, ProviderInv, NEW l \in Locales, UseDirectly(l)
  PROVE  ProviderInv'
<1>1. selected = None /\ UNCHANGED provider
  BY DEF UseDirectly
<1>2. CASE Preload(l)
  <2>1. CallsProgress
    BY <1>2 DEF Preload, CallsProgress, lifecycle, Resolved
  <2> QED
    BY <1>1, <2>1, ProviderRests
<1>3. CASE Activate(l)
  <2>1. ActiveIsServed'
    BY <1>3, ServedAfterRequest DEF ProviderInv
  <2>2. /\ ready = None /\ watches = <<>> /\ screen = "nothing"
    BY <1>1 DEF ProviderInv, BeforeMount
  <2>3. ProviderTypes' /\ WatchesCalls' /\ BeforeMount'
    BY <1>1, <2>2 DEF ProviderInv, ProviderTypes, WatchesCalls, BeforeMount,
         provider
  <2>4. CallsForSelections' /\ ReadyIsServed' /\ Shown'
    BY <1>1, <2>2, ProviderConstants DEF CallsForSelections, ReadyIsServed,
         Shown, provider
  <2> QED
    BY <2>1, <2>3, <2>4 DEF ProviderInv
<1> QED
  BY <1>2, <1>3 DEF UseDirectly

LEMMA MountInv ==
  ASSUME ControllerInv, ProviderInv, NEW l \in Locales, Mount(l)
  PROVE  ProviderInv'
<1>1. /\ selected = None /\ calls = <<>> /\ selected' = l
      /\ UNCHANGED <<vars, watches, watch>>
  BY DEF Mount
<1>2. active = None
  BY <1>1 DEF ProviderInv, ActiveIsServed
<1>3. ready' = None /\ screen' \in {"nothing", "error"}
  BY <1>2, ControllerConstants DEF Mount
<1>4. ActiveIsServed'
  BY <1>1 DEF ProviderInv, ActiveIsServed, Resolved, vars
<1>5. ProviderTypes' /\ WatchesCalls' /\ BeforeMount'
  BY <1>1, <1>3, ControllerConstants DEF ProviderInv, ProviderTypes,
       WatchesCalls, BeforeMount, vars
<1>6. CallsForSelections' /\ ReadyIsServed' /\ Shown'
  BY <1>1, <1>3, ControllerConstants, ProviderConstants
     DEF CallsForSelections, ReadyIsServed, Shown, vars
<1> QED
  BY <1>4, <1>5, <1>6 DEF ProviderInv

\* The controller has not moved, and what the Provider keeps of it stands.
LEMMA ControllerRests ==
  ASSUME ProviderInv, UNCHANGED vars
  PROVE  ActiveIsServed' /\ (AllSettled' <=> AllSettled)
BY DEF ProviderInv, ActiveIsServed, AllSettled, Resolved, Settled, vars

\* Nothing was requested for a locale that is selected for the first time.
LEMMA SelectInv ==
  ASSUME ControllerInv, ProviderInv, NEW l \in Locales, Select(l), ~Returning
  PROVE  ProviderInv'
<1>1. /\ selected # None /\ selected' = l /\ l # selected
      /\ \A i \in DOMAIN calls : calls[i].locale # l
      /\ screen' = Output(l)
      /\ UNCHANGED <<vars, ready, watches, watch>>
  BY DEF Select, Mounted, SelectedBefore
<1>2. ready # l
  BY <1>1, ControllerConstants DEF ProviderInv, ReadyIsServed
<1>3. screen' \in {"nothing", "error"}
  BY <1>1, <1>2 DEF Output
<1>4. ProviderTypes' /\ WatchesCalls' /\ BeforeMount'
  BY <1>1, <1>3, ControllerConstants DEF ProviderInv, ProviderTypes,
       WatchesCalls, BeforeMount, vars
<1>5. CallsForSelections'
  BY <1>1 DEF ProviderInv, CallsForSelections, vars
<1>6. ReadyIsServed' /\ Shown'
  BY <1>1, <1>2, <1>3, ProviderConstants DEF ProviderInv, ReadyIsServed,
       Shown, vars
<1> QED
  BY <1>1, <1>4, <1>5, <1>6, ControllerRests DEF ProviderInv

LEMMA RenderInv ==
  ASSUME ControllerInv, ProviderInv, Render
  PROVE  ProviderInv'
<1>1. /\ selected # None /\ screen' = Output(selected)
      /\ UNCHANGED <<vars, selected, ready, watches, watch>>
  BY DEF Render, Mounted
<1>2. /\ screen' \in {"error", "nothing", selected}
      /\ screen' = selected => selected \notin {"error", "nothing"}
      /\ screen' \notin {"error", "nothing"} => ready = selected /\ ~terminal
  BY <1>1, ProviderConstants DEF Output, ProviderInv, ProviderTypes
<1>3. ProviderTypes' /\ WatchesCalls' /\ BeforeMount'
  BY <1>1, <1>2 DEF ProviderInv, ProviderTypes, WatchesCalls, BeforeMount, vars
<1>4. CallsForSelections' /\ ReadyIsServed'
  BY <1>1, ControllerRests DEF ProviderInv, CallsForSelections, ReadyIsServed,
       vars, IsPending, Settled
<1>5. Shown'
  <2> SUFFICES ASSUME screen' \in Locales
               PROVE  /\ screen' = selected /\ active' = selected
                      /\ ~terminal' /\ AllSettled'
    BY <1>1 DEF Shown
  <2>1. screen' = selected /\ ready = selected /\ ~terminal
    BY <1>2, ProviderConstants
  <2>2. active = selected /\ AllSettled
    BY <1>1, <2>1 DEF ProviderInv, ReadyIsServed
  <2> QED
    BY <1>1, <2>1, <2>2, ControllerRests DEF vars, lifecycle
<1> QED
  BY <1>1, <1>3, <1>4, <1>5, ControllerRests DEF ProviderInv

LEMMA UnwatchedIs ==
  ASSUME ProviderTypes
  PROVE  /\ Inactive \in Seq(Watches) /\ Len(Inactive) = Len(watches)
         /\ DOMAIN Inactive = DOMAIN watches
         /\ DOMAIN watches = 1..Len(watches) /\ Len(watches) \in Nat
         /\ \A w \in DOMAIN watches :
              /\ Inactive[w].call = watches[w].call
              /\ Inactive[w].locale = watches[w].locale
<1>1. /\ watches \in Seq(Watches) /\ Len(watches) \in Nat
      /\ DOMAIN watches = 1..Len(watches)
      /\ \A w \in DOMAIN watches : watches[w] \in Watches
  BY DEF ProviderTypes
<1>2. \A w \in DOMAIN watches :
        /\ [watches[w] EXCEPT !.live = FALSE] \in Watches
        /\ [watches[w] EXCEPT !.live = FALSE].call = watches[w].call
        /\ [watches[w] EXCEPT !.live = FALSE].locale = watches[w].locale
  BY <1>1 DEF Watches
<1>3. Inactive \in [1..Len(watches) -> Watches]
  BY <1>1, <1>2 DEF Inactive
<1>4. Inactive \in Seq(Watches)
  BY <1>1, <1>3, SeqDef
<1>5. Len(Inactive) = Len(watches)
  BY <1>1, <1>3, <1>4, LenProperties
<1> QED
  BY <1>1, <1>2, <1>3, <1>4, <1>5 DEF Inactive

\* The cleanup forgets no watch.
LEMMA CleanupInv ==
  ASSUME ProviderInv, UNCHANGED <<calls, selected, watch>>, watches' = Inactive
  PROVE  /\ watches' \in Seq(Watches)
         /\ watch' \in Nat /\ (watch' # 0 => watch' \in DOMAIN watches')
         /\ WatchesCalls' /\ CallsForSelections'
<1>1. /\ watch \in Nat /\ (watch # 0 => watch \in DOMAIN watches)
      /\ ProviderTypes
  BY DEF ProviderInv, ProviderTypes
<1>2. /\ Inactive \in Seq(Watches) /\ DOMAIN Inactive = DOMAIN watches
      /\ \A w \in DOMAIN watches :
              /\ Inactive[w].call = watches[w].call
              /\ Inactive[w].locale = watches[w].locale
  BY <1>1, UnwatchedIs
<1>3. WatchesCalls'
  BY <1>2 DEF ProviderInv, WatchesCalls
<1>4. CallsForSelections'
  BY <1>1, <1>2 DEF ProviderInv, CallsForSelections, IsPending, Settled
<1> QED
  BY <1>1, <1>2, <1>3, <1>4

LEMMA UnmountInv ==
  ASSUME ControllerInv, ProviderInv, Unmount
  PROVE  ProviderInv'
<1>1. /\ selected # None /\ screen' = "unmounted" /\ watches' = Inactive
      /\ UNCHANGED <<vars, selected, ready, watch>>
  BY DEF Unmount, Mounted
<1>2. ProviderTypes' /\ WatchesCalls' /\ CallsForSelections'
  BY <1>1, CleanupInv DEF ProviderInv, ProviderTypes, vars
<1>3. BeforeMount' /\ Shown'
  BY <1>1, ProviderConstants DEF BeforeMount, Shown
<1>4. ReadyIsServed'
  BY <1>1, ControllerRests DEF ProviderInv, ReadyIsServed, vars
<1> QED
  BY <1>1, <1>2, <1>3, <1>4, ControllerRests DEF ProviderInv

\* Where a call for the selection has resolved, it was the last one.
LEMMA ServedLast ==
  ASSUME ControllerInv, ProviderInv, selected # None,
         NEW i \in DOMAIN calls, Resolved(i), calls[i].locale = selected
  PROVE  active = selected /\ AllSettled
<1>1. \A j \in DOMAIN calls : j <= i
  <2> SUFFICES ASSUME NEW j \in DOMAIN calls, i < j PROVE FALSE
    BY CallFields DEF ControllerInv
  <2>1. calls[j].locale = selected /\ calls[i].step = "failed"
    BY DEF ProviderInv, CallsForSelections
  <2> QED
    BY <2>1 DEF Resolved
<1>2. active = selected
  BY <1>1, CallFields DEF ProviderInv, ActiveIsServed, ControllerInv
<1>3. AllSettled
  <2>1. PICK n \in 1..(Len(calls) + 1) :
          \A j \in DOMAIN calls : Settled(j) <=> j < n
    BY DEF ControllerInv, OneTurn
  <2>2. Settled(i)
    BY DEF Resolved, Settled
  <2> QED
    BY <1>1, <2>1, <2>2, CallFields DEF AllSettled, ControllerInv
<1> QED
  BY <1>2, <1>3

LEMMA NotifyInv ==
  ASSUME ControllerInv, ProviderInv, NEW w, Notify(w)
  PROVE  ProviderInv'
<1> DEFINE c == [watches[w] EXCEPT !.told = TRUE]
<1>1. /\ w \in DOMAIN watches /\ Settled(watches[w].call)
      /\ watch' = (IF watch = w THEN 0 ELSE watch)
      /\ \/ ready' = ready
         \/ Resolved(watches[w].call) /\ ready' = watches[w].locale
      /\ UNCHANGED <<vars, selected, screen>>
  BY DEF Notify, Resolved
<1>2. /\ watches \in Seq(Watches) /\ w \in 1..Len(watches)
      /\ watches[w] \in Watches /\ DOMAIN watches = 1..Len(watches)
      /\ watch \in Nat /\ (watch # 0 => watch \in DOMAIN watches)
  BY <1>1 DEF ProviderInv, ProviderTypes
<1>3. /\ c \in Watches /\ c.call = watches[w].call
      /\ c.locale = watches[w].locale
  BY <1>2 DEF Watches
<1>4. watches' = [watches EXCEPT ![w] = c]
  BY DEF Notify
<1> HIDE DEF c
<1>5. /\ watches' \in Seq(Watches) /\ Len(watches') = Len(watches)
      /\ \A v \in 1..Len(watches) : watches'[v] = IF v = w THEN c ELSE watches[v]
  BY <1>2, <1>3, <1>4, ExceptSeq
<1>6. /\ DOMAIN watches' = DOMAIN watches
      /\ \A v \in DOMAIN watches : /\ watches'[v].call = watches[v].call
                                   /\ watches'[v].locale = watches[v].locale
  BY <1>2, <1>3, <1>5
<1>7. /\ watches[w].call \in DOMAIN calls
      /\ calls[watches[w].call].locale = watches[w].locale
      /\ watches[w].locale \in Locales
  BY <1>1, <1>2 DEF ProviderInv, WatchesCalls, Watches
<1>8. ready' \in Locales \cup {None}
  BY <1>1, <1>7 DEF ProviderInv, ProviderTypes
<1>9. ProviderTypes'
  BY <1>1, <1>2, <1>5, <1>6, <1>8 DEF ProviderInv, ProviderTypes
<1>10. WatchesCalls' /\ BeforeMount'
  BY <1>1, <1>6 DEF ProviderInv, WatchesCalls, BeforeMount, vars
<1>11. CallsForSelections'
  BY <1>1, <1>2, <1>6 DEF ProviderInv, CallsForSelections, IsPending, Settled,
       vars
<1>12. ReadyIsServed'
  <2>1. CASE ready' = ready
    BY <1>1, <2>1, ControllerRests DEF ProviderInv, ReadyIsServed, vars
  <2>2. CASE Resolved(watches[w].call) /\ ready' = watches[w].locale
    <3>1. CASE watches[w].locale = selected /\ selected # None
      BY <1>1, <1>7, <2>2, <3>1, ServedLast, ControllerRests
         DEF ReadyIsServed, vars
    <3>2. CASE ~(watches[w].locale = selected /\ selected # None)
      BY <1>1, <1>7, <2>2, <3>2 DEF ReadyIsServed, vars
    <3> QED
      BY <3>1, <3>2
  <2> QED
    BY <1>1, <2>1, <2>2
<1>13. Shown'
  BY <1>1, ControllerRests DEF ProviderInv, Shown, vars, lifecycle
<1> QED
  BY <1>1, <1>9, <1>10, <1>11, <1>12, <1>13, ControllerRests DEF ProviderInv

LEMMA WatchAdds ==
  ASSUME ProviderTypes, NEW i \in Nat, selected \in Locales, Watch(i)
  PROVE  /\ watches' \in Seq(Watches)
         /\ watch' \in Nat /\ watch' # 0 /\ watch' \in DOMAIN watches'
         /\ watches'[watch'].call = i /\ watches'[watch'].locale = selected
         /\ \A w \in DOMAIN watches' : w # watch' =>
              /\ w \in DOMAIN watches
              /\ watches'[w].call = watches[w].call
              /\ watches'[w].locale = watches[w].locale
<1> DEFINE new == [call |-> i, locale |-> selected, live |-> TRUE,
                   told |-> FALSE]
<1>1. new \in Watches /\ new.call = i /\ new.locale = selected
  BY DEF Watches
<1>2. /\ Inactive \in Seq(Watches) /\ Len(Inactive) = Len(watches)
      /\ DOMAIN watches = 1..Len(watches) /\ Len(watches) \in Nat
      /\ \A w \in DOMAIN watches : /\ Inactive[w].call = watches[w].call
                                   /\ Inactive[w].locale = watches[w].locale
  BY UnwatchedIs
<1>3. watches' = Append(Inactive, new) /\ watch' = Len(watches) + 1
  BY DEF Watch
<1> HIDE DEF new
<1>4. /\ watches' \in Seq(Watches) /\ Len(watches') = Len(watches) + 1
      /\ \A w \in 1..Len(watches) : watches'[w] = Inactive[w]
      /\ watches'[Len(watches) + 1] = new
  BY <1>1, <1>2, <1>3, AppendProperties
<1>5. DOMAIN watches' = 1..(Len(watches) + 1)
  BY <1>2, <1>4
<1> QED
  BY <1>1, <1>2, <1>3, <1>4, <1>5

LEMMA EffectInv ==
  ASSUME ControllerInv, ProviderInv, Mounted, Effect
  PROVE  ProviderInv'
<1>1. selected # None /\ selected \in Locales /\ selected' = selected
  BY DEF Mounted, Effect, ProviderInv, ProviderTypes
<1>2. CASE /\ screen' = "error" /\ watches' = Inactive
           /\ UNCHANGED <<vars, ready, watch>>
  <2>1. ProviderTypes' /\ WatchesCalls' /\ CallsForSelections'
    BY <1>1, <1>2, CleanupInv DEF ProviderInv, ProviderTypes, vars
  <2>2. BeforeMount' /\ Shown'
    BY <1>1, <1>2, ProviderConstants DEF BeforeMount, Shown
  <2>3. ReadyIsServed'
    BY <1>1, <1>2, ControllerRests DEF ProviderInv, ReadyIsServed, vars
  <2> QED
    BY <1>2, <2>1, <2>2, <2>3, ControllerRests DEF ProviderInv
<1>3. CASE /\ active = selected /\ ready' = selected /\ watches' = Inactive
           /\ UNCHANGED <<vars, screen, watch>>
  <2>1. ProviderTypes' /\ WatchesCalls' /\ CallsForSelections'
    BY <1>1, <1>3, CleanupInv DEF ProviderInv, ProviderTypes, vars
  <2>2. PICK i \in DOMAIN calls : Resolved(i) /\ calls[i].locale = selected
    BY <1>1, <1>3 DEF ProviderInv, ActiveIsServed
  <2>3. AllSettled
    BY <1>1, <2>2, ServedLast
  <2>4. BeforeMount' /\ Shown'
    BY <1>1, <1>3, ControllerRests DEF ProviderInv, BeforeMount, Shown, vars,
         lifecycle
  <2>5. ReadyIsServed'
    BY <1>1, <1>3, <2>2, <2>3, ControllerRests DEF ReadyIsServed, vars
  <2> QED
    BY <1>3, <2>1, <2>4, <2>5, ControllerRests DEF ProviderInv
<1>4. CASE /\ active # selected /\ ready' = None /\ screen' = screen
           /\ WatchPendingOrNew
  <2>1. screen \notin Locales /\ ProviderTypes
    BY <1>4 DEF ProviderInv, Shown
  <2>2. BeforeMount' /\ Shown' /\ ReadyIsServed'
    BY <1>1, <1>4, <2>1 DEF BeforeMount, Shown, ReadyIsServed
  <2>3. CASE IsPending(selected)
    <3> DEFINE i == watches[watch].call
    <3>1. /\ watch \in DOMAIN watches /\ watch # 0
          /\ watches[watch].locale = selected
      BY <2>1, <2>3 DEF IsPending, ProviderTypes
    <3>2. i \in DOMAIN calls /\ calls[i].locale = selected /\ i \in Nat
      BY <3>1, CallFields DEF ProviderInv, WatchesCalls, ControllerInv
    <3>3. Watch(i) /\ UNCHANGED vars
      BY <1>4, <2>3 DEF WatchPendingOrNew
    <3>4. PICK k : k = i
      OBVIOUS
    <3> HIDE DEF i
    <3>5. /\ watches' \in Seq(Watches)
          /\ watch' \in Nat /\ watch' # 0 /\ watch' \in DOMAIN watches'
          /\ watches'[watch'].call = k /\ watches'[watch'].locale = selected
          /\ \A w \in DOMAIN watches' : w # watch' =>
              /\ w \in DOMAIN watches
              /\ watches'[w].call = watches[w].call
              /\ watches'[w].locale = watches[w].locale
      BY <1>1, <2>1, <3>2, <3>3, <3>4, WatchAdds
    <3>6. ProviderTypes'
      BY <1>1, <1>4, <2>1, <3>5 DEF ProviderTypes
    <3>7. WatchesCalls'
      BY <3>2, <3>3, <3>5, <3>4 DEF ProviderInv, WatchesCalls, vars
    <3>8. CallsForSelections'
      BY <1>1, <3>3, <3>5, <3>4 DEF ProviderInv, CallsForSelections,
           IsPending, Settled, vars, i
    <3> QED
      BY <2>2, <3>3, <3>6, <3>7, <3>8, ControllerRests DEF ProviderInv
  <2>4. CASE ~IsPending(selected)
    <3>1. PICK n \in Nat : n = Len(calls)
      BY CallFields DEF ControllerInv
    <3>2. Activate(selected) /\ Watch(n + 1)
      BY <1>4, <2>4, <3>1 DEF WatchPendingOrNew, WatchNew
    <3>3. /\ watches' \in Seq(Watches)
          /\ watch' \in Nat /\ watch' # 0 /\ watch' \in DOMAIN watches'
          /\ watches'[watch'].call = n + 1 /\ watches'[watch'].locale = selected
          /\ \A w \in DOMAIN watches' : w # watch' =>
              /\ w \in DOMAIN watches
              /\ watches'[w].call = watches[w].call
              /\ watches'[w].locale = watches[w].locale
      BY <1>1, <2>1, <3>2, WatchAdds
    <3>4. /\ DOMAIN calls = 1..n /\ DOMAIN calls' = 1..(n + 1)
          /\ \A j \in DOMAIN calls : calls'[j] = calls[j]
          /\ calls'[n + 1].locale = selected /\ calls'[n + 1].step = "queued"
      BY <1>1, <3>1, <3>2, ActivateAdds
    <3>5. ProviderTypes'
      BY <1>1, <1>4, <2>1, <3>3 DEF ProviderTypes
    <3>6. WatchesCalls'
      BY <3>3, <3>4 DEF ProviderInv, WatchesCalls
    <3>7. \A i \in DOMAIN calls : calls[i].locale = selected =>
            calls[i].step = "failed"
      <4> SUFFICES ASSUME NEW i \in DOMAIN calls, calls[i].locale = selected
                   PROVE  calls[i].step = "failed"
        OBVIOUS
      <4>1. ~Resolved(i)
        BY <1>1, <1>4, ServedLast
      <4>2. Settled(i)
        BY <1>1, <2>4 DEF ProviderInv, CallsForSelections
      <4> QED
        BY <4>1, <4>2 DEF Resolved, Settled
    <3>8. CallsForSelections'
      <4> SUFFICES ASSUME NEW i \in DOMAIN calls'
                   PROVE  /\ \A j \in DOMAIN calls' :
                               i < j /\ calls'[i].locale = calls'[j].locale =>
                                 calls'[i].step = "failed"
                          /\ \A j \in DOMAIN calls' :
                               i < j /\ calls'[i].locale = selected =>
                                 calls'[j].locale = selected
                          /\ calls'[i].locale = selected /\ ~(Settled(i)') =>
                               watches'[watch'].call = i
        BY <1>1, <3>3 DEF CallsForSelections, IsPending
      <4>1. CASE i = n + 1
        BY <3>3, <3>4, <4>1
      <4>2. CASE i # n + 1
        <5>1. i \in DOMAIN calls /\ calls'[i] = calls[i]
          BY <3>4, <4>2
        <5>2. \A j \in DOMAIN calls' : j \in DOMAIN calls \/ j = n + 1
          BY <3>4
        <5>3. calls[i].locale = selected => Settled(i)'
          BY <3>7, <5>1 DEF Settled
        <5> QED
          BY <1>1, <3>4, <3>7, <5>1, <5>2, <5>3 DEF ProviderInv,
               CallsForSelections
      <4> QED
        BY <4>1, <4>2
    <3>9. ActiveIsServed'
      BY <1>1, <3>2, ServedAfterRequest DEF ProviderInv
    <3> QED
      BY <2>2, <3>5, <3>6, <3>8, <3>9 DEF ProviderInv
  <2> QED
    BY <2>3, <2>4
<1> QED
  BY <1>2, <1>3, <1>4 DEF Effect

LEMMA ProviderStep ==
  ASSUME ControllerInv, ProviderInv, [ProviderNext]_all, ~Returning
  PROVE  ProviderInv'
<1>1. CASE \/ (Progress \/ Dispose \/ GetTranslations) /\ UNCHANGED provider
           \/ UNCHANGED all
  BY <1>1, ControllerProgress, ProviderRests DEF all
<1> QED
  BY <1>1, RenderInv, EffectInv, NotifyInv, MountInv, SelectInv, DirectInv,
     UnmountInv
     DEF ProviderNext, ProviderProgress, RunEffect, RunEffectAgain

(* A Provider whose parent selects no locale a second time shows its        *)
(* children only in their locale (createProvider): whichever renders,       *)
(* effects and answers of the controller come first, that locale is the     *)
(* active one and the language of the instance.                             *)
THEOREM ChildrenInLocale ==
  ASSUME ~Returning PROVE ProviderSpec => []ChildrenInTheirLocale
<1>1. ProviderInit => ProviderInv
  <2> SUFFICES ASSUME ProviderInit PROVE ProviderInv
    OBVIOUS
  <2>1. <<>> \in Seq(Watches)
    BY EmptySeq
  <2>2. ActiveIsServed /\ ProviderTypes /\ WatchesCalls /\ BeforeMount
    BY <2>1 DEF ProviderInit, Init, ActiveIsServed, ProviderTypes,
         WatchesCalls, BeforeMount
  <2>3. CallsForSelections /\ ReadyIsServed /\ Shown
    BY ProviderConstants DEF ProviderInit, CallsForSelections, ReadyIsServed,
         Shown
  <2> QED
    BY <2>2, <2>3 DEF ProviderInv
<1>2. ControllerInv /\ ProviderInv /\ [ProviderNext]_all => ProviderInv'
  BY ProviderStep
<1>3. ControllerInv /\ ProviderInv => ChildrenInTheirLocale
  <2> SUFFICES ASSUME ControllerInv, ProviderInv, screen \in Locales
               PROVE  active = screen /\ language = screen
    BY DEF ChildrenInTheirLocale
  <2>1. active = screen /\ ~terminal /\ AllSettled
    BY DEF ProviderInv, Shown
  <2>2. active # None /\ init = "ok" /\ ~Switching
    BY <2>1, ControllerConstants DEF ControllerInv, ActiveStands, AllSettled,
         Settled, Switching
  <2> QED
    BY <2>1, <2>2 DEF ControllerInv, LanguageRests, Base
<1> QED
  BY <1>1, <1>2, <1>3, ControllerAlways, PTL DEF ProviderSpec

=============================================================================
