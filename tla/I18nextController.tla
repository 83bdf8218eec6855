------------------------- MODULE I18nextController -------------------------
(***************************************************************************)
(* The locale controller of packages/intl-i18next/src/index.ts             *)
(* (createController): an i18next instance, the resources loaded into it,  *)
(* the promise chain (transitionTail) that serialises locale activations,  *)
(* and disposal, which can fall between any two of their steps.            *)
(*                                                                         *)
(* JavaScript runs one step at a time; an action is what runs between two  *)
(* awaits.  Initialisation, a resource and a language change settle when   *)
(* and as i18next and the application let them: changeLanguage may reject  *)
(* before it has switched the language or after it.  (The empty resources  *)
(* option keeps i18next from loading anything by itself.)                  *)
(*                                                                         *)
(* Abstractions: a locale is a model value and always one of the catalog's *)
(* (assertLocale throws before anything changes); resources carry no       *)
(* content; renderers and their recovery are left out.  Calls and loads    *)
(* are numbered in the order they are made, and kept when they settle.     *)
(***************************************************************************)
EXTENDS Naturals, Sequences, FiniteSets

CONSTANTS Locales,
          Initial,    \* the locale the controller is created for
          None,
          MaxCalls,   \* bound on the calls of activateLocale
          MaxPreloads \* the application preloads before so many loads are made

ASSUME ControllerConstants ==
  /\ Initial \in Locales /\ None \notin Locales
  /\ MaxCalls \in Nat /\ MaxPreloads \in Nat

VARIABLES
  init,        \* the initialization promise: "pending", "ok" or "failed"
  disposed,
  terminal,    \* a rollback failed: terminalError is set
  generation,  \* lifecycleGeneration
  active,      \* activeLocale, or None
  language,    \* instance.language, or None before initialisation
  bundles,     \* the locales whose resources the instance has
  runtime,     \* the locale of translationRuntime, or None
  pending,     \* pending[l]: the load pendingLoads holds for l, or 0
  loads,       \* the loads made
  calls,       \* the activations requested; transitionTail is the last
  previous     \* previousLocale of the transition under way

lifecycle == <<disposed, terminal, generation>>
loading   == <<pending, loads, bundles>>
vars      == <<init, lifecycle, active, language, runtime, loading, calls,
               previous>>

Settled(i) == calls[i].step \in {"resolved", "failed"}

\* The transition under way: the first call that has not settled.
IsTurn(i) ==
  /\ i \in DOMAIN calls
  /\ ~Settled(i)
  /\ \A j \in 1..(i - 1) : Settled(j)

\* assertActive and assertGeneration
Closed == disposed \/ terminal
Stale(g) == disposed \/ g # generation

To(i, s) == calls' = [calls EXCEPT ![i].step = s]

Init ==
  /\ init = "pending"
  /\ disposed = FALSE
  /\ terminal = FALSE
  /\ generation = 0
  /\ active = None
  /\ language = None
  /\ bundles = {}
  /\ runtime = None
  /\ pending = [l \in Locales |-> 0]
  /\ loads = <<>>
  /\ calls = <<>>
  /\ previous = None

\* instance.init settles.
Initialize ==
  /\ init = "pending"
  /\ \/ init' = "ok" /\ language' = Initial
     \/ init' = "failed" /\ UNCHANGED language
  /\ UNCHANGED <<lifecycle, active, runtime, loading, calls, previous>>

----------------------------------------------------------------------------
(* loadLocale *)

\* A new load.  (Also the mutant of LoadLocale that looks for no pending one.)
StartLoad(l) ==
  /\ loads' = Append(loads, [locale |-> l, gen |-> generation,
                             step |-> "waiting"])
  /\ pending' = [pending EXCEPT ![l] = Len(loads) + 1]
  /\ UNCHANGED bundles

\* The pending load of l is shared, or a new one is started.
LoadLocale(l) ==
  IF pending[l] # 0 THEN UNCHANGED loading ELSE StartLoad(l)

\* The application preloads a locale.
Preload(l) ==
  /\ ~Closed
  /\ Len(loads) < MaxPreloads
  /\ LoadLocale(l)
  /\ UNCHANGED <<init, lifecycle, active, language, runtime, calls, previous>>

\* The load settles; its finally block forgets it by its locale.
SettleLoad(k, s) ==
  /\ loads' = [loads EXCEPT ![k].step = s]
  /\ pending' = [pending EXCEPT ![loads[k].locale] = 0]

\* The load resumes after initialisation.
BeginLoad(k) ==
  /\ k \in DOMAIN loads
  /\ loads[k].step = "waiting" /\ init # "pending"
  /\ \/ /\ init = "failed" \/ Stale(loads[k].gen)
        /\ SettleLoad(k, "failed")
     \/ /\ init = "ok" /\ ~Stale(loads[k].gen)
        /\ IF loads[k].locale \in bundles
           THEN SettleLoad(k, "done")
           ELSE loads' = [loads EXCEPT ![k].step = "fetching"]
                /\ UNCHANGED pending
  /\ UNCHANGED <<init, lifecycle, active, language, runtime, bundles, calls,
                 previous>>

\* loadCatalogResource settles; a resource that comes too late is dropped.
EndLoad(k) ==
  /\ k \in DOMAIN loads
  /\ loads[k].step = "fetching"
  /\ \/ /\ ~Stale(loads[k].gen)
        /\ bundles' = bundles \cup {loads[k].locale}
        /\ SettleLoad(k, "done")
     \/ /\ SettleLoad(k, "failed")
        /\ UNCHANGED bundles
  /\ UNCHANGED <<init, lifecycle, active, language, runtime, calls, previous>>

----------------------------------------------------------------------------
(* activateLocale *)

Activate(l) ==
  /\ ~Closed
  /\ Len(calls) < MaxCalls
  /\ calls' = Append(calls, [locale |-> l, gen |-> generation,
                             step |-> "queued", load |-> 0])
  /\ UNCHANGED <<init, lifecycle, active, language, runtime, loading, previous>>

\* Its turn has come: load the locale.
BeginCall(i) ==
  /\ IsTurn(i) /\ calls[i].step = "queued"
  /\ LET l == calls[i].locale IN
     IF Stale(calls[i].gen)
     THEN To(i, "failed") /\ UNCHANGED loading
     ELSE /\ LoadLocale(l)
          /\ calls' = [calls EXCEPT ![i].step = "loading",
                                    ![i].load = pending'[l]]
  /\ UNCHANGED <<init, lifecycle, active, language, runtime, previous>>

\* The locale is loaded: ask i18next to change the language.
Loaded(i) ==
  /\ IsTurn(i) /\ calls[i].step = "loading"
  /\ LET load == loads[calls[i].load] IN
     \/ /\ \/ load.step = "failed"
           \/ load.step = "done" /\ Stale(calls[i].gen)
        /\ To(i, "failed")
        /\ UNCHANGED previous
     \/ /\ load.step = "done" /\ ~Stale(calls[i].gen)
        /\ previous' = IF active = None THEN Initial ELSE active
        /\ To(i, "switching")
  /\ UNCHANGED <<init, lifecycle, active, language, runtime, loading>>

\* instance.changeLanguage(locale) settles.
ChangeLanguage(i) ==
  /\ IsTurn(i) /\ calls[i].step = "switching"
  /\ \/ language' = calls[i].locale /\ To(i, "switched")
     \/ language' \in {language, calls[i].locale} /\ To(i, "rejected")
  /\ UNCHANGED <<init, lifecycle, active, runtime, loading, previous>>

\* Mutant: a controller closed during the change is not noticed.
CommitAlways(i) ==
  /\ IsTurn(i) /\ calls[i].step = "switched"
  /\ active' = calls[i].locale
  /\ runtime' = IF runtime = None THEN None ELSE calls[i].locale
  /\ To(i, "resolved")
  /\ UNCHANGED <<init, lifecycle, language, loading, previous>>

\* The language has changed: the locale is the active one.
Commit(i) ==
  /\ IsTurn(i) /\ calls[i].step = "switched" /\ ~Stale(calls[i].gen)
  /\ active' = calls[i].locale
  /\ runtime' = IF runtime = None THEN None ELSE calls[i].locale
  /\ To(i, "resolved")
  /\ UNCHANGED <<init, lifecycle, language, loading, previous>>

\* Mutant: a change that was rejected is taken to have changed nothing.
RejectOnly(i) ==
  /\ IsTurn(i) /\ calls[i].step \in {"rejected", "switched"}
  /\ calls[i].step = "switched" => Stale(calls[i].gen)
  /\ To(i, "failed")
  /\ UNCHANGED <<init, lifecycle, active, language, runtime, loading, previous>>

\* Mutant: a transition that meets a closed controller just ends.
RevertRejected(i) ==
  /\ IsTurn(i) /\ calls[i].step = "rejected"
  /\ To(i, IF language = previous THEN "failed" ELSE "rollback")
  /\ UNCHANGED <<init, lifecycle, active, language, runtime, loading, previous>>

\* The change was rejected, or the controller closed during it: the previous
\* language comes back (rollbackLanguage), unless it is still there.
Revert(i) ==
  /\ IsTurn(i) /\ calls[i].step \in {"rejected", "switched"}
  /\ calls[i].step = "switched" => Stale(calls[i].gen)
  /\ To(i, IF language = previous THEN "failed" ELSE "rollback")
  /\ UNCHANGED <<init, lifecycle, active, language, runtime, loading, previous>>

\* instance.changeLanguage(previousLocale) settles; its failure is final.
Rollback(i) ==
  /\ IsTurn(i) /\ calls[i].step = "rollback"
  /\ To(i, "failed")
  /\ \/ /\ language' = previous
        /\ UNCHANGED <<terminal, generation, pending>>
     \/ /\ language' \in {language, previous}
        /\ terminal' = TRUE
        /\ generation' = generation + 1
        /\ pending' = [l \in Locales |-> 0]
  /\ UNCHANGED <<init, disposed, active, runtime, loads, bundles, previous>>

----------------------------------------------------------------------------
Dispose ==
  /\ ~disposed
  /\ disposed' = TRUE
  /\ generation' = generation + 1
  /\ pending' = [l \in Locales |-> 0]
  /\ UNCHANGED <<init, terminal, active, language, runtime, loads, bundles,
                 calls, previous>>

\* The first translations create the runtime.
GetTranslations ==
  /\ ~Closed
  /\ active # None /\ runtime = None
  /\ runtime' = active
  /\ UNCHANGED <<init, lifecycle, active, language, loading, calls, previous>>

\* The steps that follow from what was called already.
Progress ==
  \/ Initialize
  \/ \E k \in DOMAIN loads : BeginLoad(k) \/ EndLoad(k)
  \/ \E i \in DOMAIN calls :
       \/ BeginCall(i) \/ Loaded(i) \/ ChangeLanguage(i)
       \/ Commit(i) \/ Revert(i) \/ Rollback(i)

----------------------------------------------------------------------------
\* Some transition is between asking for a language and having it settled.
Switching ==
  \E i \in DOMAIN calls :
    calls[i].step \in {"switching", "switched", "rejected", "rollback"}

\* A locale is active, and i18next is asked to switch to it, only with its
\* resources in the instance, however loads were shared or retried.
ActiveIsLoaded ==
  /\ active # None => active \in bundles
  /\ \A i \in DOMAIN calls :
       calls[i].step \in {"switching", "switched", "resolved"} =>
         calls[i].locale \in bundles

\* Concurrent requests for one locale share one load.
OneLoadPerLocale ==
  \A j, k \in DOMAIN loads :
    /\ loads[j].locale = loads[k].locale
    /\ {loads[j].step, loads[k].step} \subseteq {"waiting", "fetching"}
    => j = k

\* pendingLoads never holds a load that has settled: a failed load is retried
\* by the next call, not remembered.
PendingIsUnsettled ==
  \A l \in Locales :
    pending[l] # 0 =>
      /\ loads[pending[l]].locale = l
      /\ loads[pending[l]].step \in {"waiting", "fetching"}

\* Between transitions the language of the i18next instance is the active
\* locale, or the initial one as long as none is active: after a success,
\* after a failure, after a disposal in the middle.  Only a controller whose
\* rollback failed has lost its language.  Translations handed out render in
\* the active locale at all times, and their resources are loaded, once for
\* all requests at a time, and again after a failure.
LanguageFollowsActive ==
  /\ init = "ok" /\ ~Switching /\ ~terminal =>
       language = IF active = None THEN Initial ELSE active
  /\ runtime # None => runtime = active
  /\ ActiveIsLoaded
  /\ OneLoadPerLocale
  /\ PendingIsUnsettled

\* The activations that wait are the last ones: the one whose turn it is, and
\* those called after it.
FirstOpen ==
  CHOOSE n \in 1..(Len(calls) + 1) :
    \A i \in DOMAIN calls : Settled(i) <=> i < n

Waiting == [i \in 1..(Len(calls) + 1 - FirstOpen) |->
              calls[FirstOpen - 1 + i].locale]

\* Activations are served in the order of the calls, and none takes effect
\* after the controller is disposed or has become terminal.
Selection == INSTANCE LocaleSelection WITH waiting <- Waiting, closed <- Closed

ServedInOrder == Selection!Spec

\* Every activation settles.
ActivationsSettle ==
  \A i \in 1..MaxCalls : i \in DOMAIN calls ~> i \in DOMAIN calls /\ Settled(i)

=============================================================================
