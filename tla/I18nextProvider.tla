-------------------------- MODULE I18nextProvider --------------------------
(***************************************************************************)
(* The React Provider of packages/intl-i18next/src/index.ts over one       *)
(* controller: it renders its children once the locale its parent selects  *)
(* is active, and activates that locale in an effect.                      *)
(*                                                                         *)
(* React renders with the props and the state of the moment, and runs the  *)
(* effect of a changed selection some time after that render; the state a  *)
(* promise callback sets is rendered later.  React may also clean the      *)
(* effect up and run it again for the same selection (StrictMode, Fast     *)
(* Refresh, a hidden tree shown again).                                    *)
(*                                                                         *)
(* Abstractions: the controller stays the same; an application preloads    *)
(* and activates locales itself or leaves them to the Provider (others may *)
(* ask for translations or dispose the controller at any time); children   *)
(* are shown for a locale, and an error thrown from a render or an effect  *)
(* unmounts the tree for good.                                             *)
(***************************************************************************)
EXTENDS I18nextController

CONSTANT Returning   \* the parent may select a locale it selected before

ASSUME ProviderConstants ==
  /\ Returning \in BOOLEAN
  /\ Locales \cap {"nothing", "error", "unmounted"} = {}

VARIABLES
  selected,   \* selectedLocale of the last render, None before the first
  screen,     \* what is on screen: "nothing", the locale of the children,
              \* "error" or "unmounted"
  effect,     \* the selection whose effect has run, or None
  ready,      \* readySelection.locale, or None
  error,      \* activationError is set
  watches,    \* the activations watched by effects: call, locale, and
              \* whether the effect is still the current one, and notified
  watch,      \* pendingSelection: the watch it holds, or 0
  runs        \* selections and second runs so far: each may request an
              \* activation, so they are bounded by MaxCalls

provider == <<selected, screen, effect, ready, error, watches, watch, runs>>
all == <<vars, provider>>

\* Mutant: what is ready is shown, whatever was selected since.
OutputReady(l) ==
  IF error \/ terminal THEN "error" ELSE IF ready # None THEN l ELSE "nothing"

\* What a render with selection l shows.  getActiveLocale throws once the
\* controller is terminal.
Output(l) ==
  IF error \/ terminal THEN "error" ELSE IF ready = l THEN l ELSE "nothing"

Mounted == selected # None /\ screen \notin {"error", "unmounted"}

\* An application without the Provider preloads and activates locales.
UseDirectly(l) ==
  /\ selected = None
  /\ Preload(l) \/ Activate(l)
  /\ UNCHANGED provider

ProviderInit ==
  /\ Init
  /\ selected = None
  /\ screen = "nothing"
  /\ effect = None
  /\ ready = None
  /\ error = FALSE
  /\ watches = <<>>
  /\ watch = 0
  /\ runs = 0

\* The first render: readySelection starts from the active locale.
Mount(l) ==
  /\ selected = None /\ calls = <<>> /\ loads = <<>>
  /\ selected' = l
  /\ ready' = IF active = l THEN l ELSE None
  /\ screen' = IF terminal THEN "error" ELSE IF active = l THEN l ELSE "nothing"
  /\ UNCHANGED <<vars, effect, error, watches, watch, runs>>

SelectedBefore(l) ==
  l = active \/ l = selected \/ \E i \in DOMAIN calls : calls[i].locale = l

\* The parent renders with another initialLocale.
Select(l) ==
  /\ Mounted
  /\ l # selected
  /\ runs < MaxCalls - 1
  /\ runs' = runs + 1
  /\ Returning \/ ~SelectedBefore(l)
  /\ selected' = l
  /\ screen' = Output(l)
  /\ UNCHANGED <<vars, effect, ready, error, watches, watch>>

\* State set by the effect or by a callback is rendered.
Render ==
  /\ Mounted
  /\ screen # Output(selected)
  /\ screen' = Output(selected)
  /\ UNCHANGED <<vars, selected, effect, ready, error, watches, watch, runs>>

\* The cleanup of the effect that ran last.
Inactive == [w \in DOMAIN watches |-> [watches[w] EXCEPT !.live = FALSE]]

\* The effect watches an activation of the selection.
Watch(i) ==
  /\ watches' = Append(Inactive, [call |-> i, locale |-> selected,
                                  live |-> TRUE, told |-> FALSE])
  /\ watch' = Len(watches) + 1

\* pendingSelection is for this controller and this locale.
IsPending(l) == watch # 0 /\ watches[watch].locale = l

\* Mutant: the selection pending already is not looked for.
WatchNew ==
  /\ Activate(selected)
  /\ Watch(Len(calls) + 1)

\* The activation pending for the same selection is shared, or a new one is
\* requested.
WatchPendingOrNew ==
  IF IsPending(selected)
  THEN Watch(watches[watch].call) /\ UNCHANGED vars
  ELSE WatchNew

\* The effect, after the cleanup of the one before it.  A closed controller
\* throws out of it, which unmounts the tree.
Effect ==
  /\ effect' = selected
  /\ error' = FALSE
  /\ \/ /\ \/ terminal
           \/ disposed /\ active # selected /\ ~IsPending(selected)
        /\ screen' = "error"
        /\ watches' = Inactive
        /\ UNCHANGED <<vars, ready, watch>>
     \/ /\ ~terminal /\ active = selected
        /\ ready' = selected
        /\ watches' = Inactive
        /\ UNCHANGED <<vars, screen, watch>>
     \/ /\ ~terminal /\ active # selected
        /\ WatchPendingOrNew
        /\ ready' = None
        /\ UNCHANGED screen
  /\ UNCHANGED selected

RunEffect ==
  /\ Mounted
  /\ effect # selected
  /\ Effect
  /\ UNCHANGED runs

RunEffectAgain ==
  /\ Mounted
  /\ effect = selected
  /\ runs < MaxCalls - 1
  /\ runs' = runs + 1
  /\ Effect

Unmount ==
  /\ Mounted
  /\ screen' = "unmounted"
  /\ watches' = Inactive
  /\ UNCHANGED <<vars, selected, effect, ready, error, watch, runs>>

\* Mutant: an effect that was cleaned up still reports.
NotifyAlways(w) ==
  /\ w \in DOMAIN watches /\ ~watches[w].told
  /\ Settled(watches[w].call)
  /\ watches' = [watches EXCEPT ![w].told = TRUE]
  /\ watch' = IF watch = w THEN 0 ELSE watch
  /\ IF calls[watches[w].call].step = "resolved"
     THEN ready' = watches[w].locale /\ UNCHANGED error
     ELSE error' = TRUE /\ UNCHANGED ready
  /\ UNCHANGED <<vars, selected, screen, effect, runs>>

\* The activation an effect watches settles.
Notify(w) ==
  /\ w \in DOMAIN watches /\ ~watches[w].told
  /\ Settled(watches[w].call)
  /\ watches' = [watches EXCEPT ![w].told = TRUE]
  /\ watch' = IF watch = w THEN 0 ELSE watch
  /\ IF ~watches[w].live THEN UNCHANGED <<ready, error>>
     ELSE IF calls[watches[w].call].step = "resolved"
     THEN ready' = watches[w].locale /\ UNCHANGED error
     ELSE error' = TRUE /\ UNCHANGED ready
  /\ UNCHANGED <<vars, selected, screen, effect, runs>>

ProviderProgress ==
  \/ Progress /\ UNCHANGED provider
  \/ Render \/ RunEffect \/ \E w \in DOMAIN watches : Notify(w)

ProviderNext ==
  \/ ProviderProgress
  \/ \E l \in Locales : Mount(l) \/ Select(l) \/ UseDirectly(l)
  \/ RunEffectAgain \/ Unmount
  \/ (Dispose \/ GetTranslations) /\ UNCHANGED provider

ProviderSpec == ProviderInit /\ [][ProviderNext]_all

\* Promises settle, and React renders and runs effects; nothing obliges the
\* parent to select.
ProviderLiveSpec == ProviderSpec /\ WF_all(ProviderProgress)

----------------------------------------------------------------------------
\* Children are on screen only while the locale they were rendered for is the
\* active one and the language of the i18next instance.
ChildrenInTheirLocale ==
  screen \in Locales => active = screen /\ language = screen

\* The parent's selection is served: once it stops selecting, the children
\* are on screen in the selected locale, and that locale is the active one,
\* or the Provider has failed or is gone.
SelectionServed ==
  []<>( \/ screen = selected /\ active = selected
        \/ screen \in {"error", "unmounted"} \/ selected = None
        \/ Closed )

=============================================================================
