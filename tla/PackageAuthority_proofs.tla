----------------------- MODULE PackageAuthority_proofs -----------------------
(***************************************************************************)
(* Proofs about PackageAuthority, for any workspace, any number of         *)
(* processes and any order of their steps, edits, kills and ticks.         *)
(*                                                                         *)
(* The argument is in two layers.  The world only moves forward: a version *)
(* that has changed never comes back, a root is only ever regenerated from *)
(* the inputs of its moment, and objects and what was authorized are never *)
(* lost (WorldMoves).  So what a process has compared stays known while    *)
(* the others act, in the form: what still is as I saw it was so at the    *)
(* moment I need.  The invariant AuthorityInv says, label by label, what   *)
(* each process knows.                                                     *)
(***************************************************************************)
EXTENDS PackageAuthority, TLAPS

Sets == [src : Nat, cat : Nat, tool : Nat]

Objects == [kind : Kinds, of : Sets]

Moments == [src : [Packages -> Nat], cat : [Packages -> Nat], tool : Nat,
            generated : [Packages -> Nat \X Nat]]

Outcomes == {"none", "verified", "rejected", "reused", "changed",
             "diagnostics", "expired", "authorized", "killed"}

Works == [set : Sets, named : Sets, i : Nat,
          read : [Packages -> Sets \cup {None}], ok : [Packages -> BOOLEAN],
          tool : Nat, runtime : Runtimes \cup {None}, linked : BOOLEAN,
          began : Nat, deadline : Nat, outcome : Outcomes]

Round1 == {"cat", "src", "gen"}
Round2 == {"recat", "resrc", "regen"}
Verifying == {"select", "verified"} \cup Round1 \cup Round2
Fingerprinting == {"fpInputs", "fpGenerated", "fpSources"}
Preparing == {"ensure", "verify", "sources", "toolchain", "analyze"}
Committing == {"commit", "record"}
Labels == {"idle"} \cup Verifying \cup Preparing \cup Kinds
            \cup Fingerprinting \cup Committing

WorldTypes ==
  /\ src \in [Packages -> Nat] /\ cat \in [Packages -> Nat] /\ tool \in Nat
  /\ generated \in [Packages -> Nat \X Nat]
  /\ objects \in [Packages -> SUBSET Objects]
  /\ selector \in [Packages -> Sets \cup {None}]
  /\ record \in [Packages -> (Sets \X Runtimes) \cup {None}]
  /\ now \in Nat /\ edits \in Nat
  /\ seen \subseteq Moments \X Nat
  /\ activated \subseteq Packages \X Sets \X Runtimes

ProcessTypes == pc \in [Procs -> Labels] /\ work \in [Procs -> Works]

AuthorityTypes == WorldTypes /\ ProcessTypes

----------------------------------------------------------------------------
\* What holds between the inputs, the store and the histories.

\* Set s of package p was authorized on runtime t, whose analysis took it.
Accepted(p, s, t) ==
  <<p, s, t>> \in activated /\ <<s.src, t>> \notin Rejected

VersionsPast ==
  /\ \A p \in Packages : src[p] <= edits /\ cat[p] <= edits
  /\ tool <= edits

MomentSeen == <<Moment, now>> \in seen

SelectorsStand ==
  \A p \in Packages :
    selector[p] # None =>
      /\ Complete(p, selector[p])
      /\ \E t \in Runtimes : Accepted(p, selector[p], t)

RecordsStand ==
  \A p \in Packages :
    record[p] # None => Accepted(p, record[p][1], record[p][2])

WorldInv == VersionsPast /\ MomentSeen /\ SelectorsStand /\ RecordsStand

----------------------------------------------------------------------------
\* What a check knows at each label.

Began(q) == work[q].began <= now /\ work[q].set.src <= edits

Installed(q, kind) ==
  [kind |-> kind, of |-> work[q].set] \in objects[Home[q]]

Written(q) ==
  /\ pc[q] \in {"receipt", "set"} \cup Fingerprinting \cup Committing
       => Installed(q, "authority")
  /\ pc[q] \in {"set"} \cup Fingerprinting \cup Committing
       => Installed(q, "receipt")
  /\ pc[q] \in Fingerprinting \cup Committing => Installed(q, "set")
  /\ work[q].linked => pc[q] \in Kinds /\ Installed(q, pc[q])

Analysed(q) ==
  /\ pc[q] # "idle" => work[q].runtime \in Runtimes
  /\ pc[q] \in Kinds \cup Fingerprinting \cup Committing
       => <<work[q].set.src, work[q].runtime>> \notin Rejected
  /\ pc[q] = "record" => <<Home[q], work[q].set, work[q].runtime>> \in activated

Named(q) ==
  pc[q] \in Verifying \/ work[q].outcome = "reused" =>
    Accepted(Home[q], work[q].named, work[q].runtime)

\* There is a moment since the fingerprint began when every input was what
\* the set binds, and the root what they generate.
WasMoment(q) ==
  \E e \in seen : /\ Binds(work[q].set, e[1], Home[q])
                 /\ e[1].generated[Home[q]] = Generation(work[q].set)
                 /\ e[2] >= work[q].began

\* At fpGenerated the catalog and the toolchain have been seen to agree: if
\* the two others still agree now, all of them agreed then or at the
\* regeneration since.  At fpSources only the sources are left.
Fingerprinted(q) ==
  /\ /\ pc[q] = "fpGenerated"
     /\ src[Home[q]] = work[q].set.src
     /\ generated[Home[q]] = Generation(work[q].set)
     => WasMoment(q)
  /\ pc[q] = "fpSources" /\ src[Home[q]] = work[q].set.src => WasMoment(q)
  /\ pc[q] \in Committing => WasMoment(q)

CheckInv(q) ==
  Began(q) /\ Written(q) /\ Analysed(q) /\ Named(q) /\ Fingerprinted(q)

----------------------------------------------------------------------------
\* What a build knows.

\* What it has read was selected, and so accepted.
ReadStands(q) ==
  \A p \in Packages :
    work[q].read[p] # None =>
      \E t \in Runtimes : Accepted(p, work[q].read[p], t)

Place(q) ==
  /\ work[q].began <= now /\ work[q].tool <= edits
  /\ pc[q] \in {"idle", "verified"} \cup {"select"} \cup Round1 \cup Round2
  /\ pc[q] \in {"select"} \cup Round1 \cup Round2 => work[q].i \in DOMAIN Order

\* The first round has compared the catalog of p with set s ...
CatalogKnown(q, p, s) ==
  s \in Sets \ {None} /\ s.tool = work[q].tool /\ s.cat <= edits

\* ... its sources ...
SourcesKnown(q, p, s) == CatalogKnown(q, p, s) /\ s.src <= edits

\* ... and its root, which then changes only when its inputs do.
Known(q, p, s) ==
  /\ SourcesKnown(q, p, s)
  /\ GenerationInput(p) = Generation(s) => generated[p] = Generation(s)

FirstKnown(q) ==
  LET p == Order[work[q].i]
      s == work[q].read[p]
  IN  /\ pc[q] = "cat" => s \in Sets \ {None}
      /\ pc[q] = "src" => CatalogKnown(q, p, s)
      /\ pc[q] = "gen" => SourcesKnown(q, p, s)
      /\ pc[q] \in {"select"} \cup Round1 =>
           \A j \in DOMAIN Order : j >= work[q].i => ~work[q].ok[Order[j]]

GoodKnown(q) ==
  pc[q] # "idle" =>
    \A p \in Packages : work[q].ok[p] => Known(q, p, work[q].read[p])

\* Moment m is the one between the rounds as far as package p can tell: what
\* still agrees with set s agreed then.
Suits(m, p, s) ==
  /\ cat[p] = s.cat => m.cat[p] = s.cat
  /\ src[p] = s.src => m.src[p] = s.src
  /\ generated[p] = Generation(s) \/ GenerationInput(p) = Generation(s)
       => m.generated[p] = Generation(s)

Confirmed(m, p, s) ==
  m.cat[p] = s.cat /\ m.src[p] = s.src /\ m.generated[p] = Generation(s)

\* One moment since the session began suits every package found good, and
\* is confirmed by those compared again.
SecondKnown(q, m) ==
  /\ tool = work[q].tool => m.tool = work[q].tool
  /\ \A p \in Packages : work[q].ok[p] => Suits(m, p, work[q].read[p])
  /\ \A j \in DOMAIN Order :
       /\ work[q].ok[Order[j]]
       /\ pc[q] = "verified" \/ j < work[q].i
       => Confirmed(m, Order[j], work[q].read[Order[j]])
  /\ LET p == Order[work[q].i]
         s == work[q].read[p]
     IN  /\ pc[q] \in Round2 => work[q].ok[p]
         /\ pc[q] \in {"resrc", "regen"} => m.cat[p] = s.cat
         /\ pc[q] = "regen" => m.src[p] = s.src

BetweenRounds(q) ==
  pc[q] \in Round2 \cup {"verified"} =>
    \E e \in seen : e[2] >= work[q].began /\ SecondKnown(q, e[1])

\* What a session that succeeded leaves.
Verified(q) ==
  work[q].outcome = "verified" =>
    /\ pc[q] = "idle"
    /\ \A p \in Packages : work[q].read[p] \in Sets \ {None}
    /\ \E e \in seen :
         /\ e[2] >= work[q].began
         /\ \A p \in Packages :
              /\ Binds(work[q].read[p], e[1], p)
              /\ e[1].generated[p] = Generation(work[q].read[p])

BuildInv(q) ==
  /\ ReadStands(q) /\ Place(q) /\ FirstKnown(q) /\ GoodKnown(q)
  /\ BetweenRounds(q) /\ Verified(q)

AuthorityInv ==
  /\ AuthorityTypes /\ WorldInv
  /\ \A q \in Checks : CheckInv(q)
  /\ \A q \in Builds : BuildInv(q)

----------------------------------------------------------------------------
(* Types.                                                                   *)

USE DEF Procs

LEMMA IdleType == Idle \in Works
<1>1. Blank \in Sets
  BY DEF Blank, Sets
<1>2. /\ [p \in Packages |-> None] \in [Packages -> Sets \cup {None}]
      /\ [p \in Packages |-> FALSE] \in [Packages -> BOOLEAN]
  OBVIOUS
<1>3. 1 \in Nat /\ 0 \in Nat /\ FALSE \in BOOLEAN
  OBVIOUS
<1>4. None \in Runtimes \cup {None}
  OBVIOUS
<1> QED
  BY <1>1, <1>2, <1>3, <1>4, Zenon DEF Idle, Works, Outcomes

LEMMA InitTypes == Init => AuthorityTypes
<1> SUFFICES ASSUME Init PROVE AuthorityTypes
  OBVIOUS
<1>1. Blank \in Sets
  BY DEF Blank, Sets
<1>2. objects \in [Packages -> SUBSET Objects]
  BY <1>1 DEF Init, Objects
<1>3. work \in [Procs -> Works] /\ pc \in [Procs -> Labels]
  BY IdleType DEF Init, Labels
<1>4. src \in [Packages -> Nat] /\ cat \in [Packages -> Nat] /\ tool \in Nat
  BY DEF Init
<1>5. generated \in [Packages -> Nat \X Nat]
  BY DEF Init
<1>6. seen \subseteq Moments \X Nat
  BY <1>4, <1>5 DEF Init, Moment, Moments
<1>7. activated \subseteq Packages \X Sets \X Runtimes
  BY <1>1 DEF Init
<1>8. selector \in [Packages -> Sets \cup {None}]
  BY <1>1 DEF Init
<1>9. record \in [Packages -> (Sets \X Runtimes) \cup {None}]
  BY DEF Init
<1> QED
  BY <1>2, <1>3, <1>4, <1>5, <1>6, <1>7, <1>8, <1>9
     DEF Init, AuthorityTypes, WorldTypes, ProcessTypes

\* Process q goes to a label with work w, and the others rest.
Turns(q, label, w) ==
  /\ ProcessTypes'
  /\ pc'[q] = label /\ work'[q] = w
  /\ \A r \in Procs \ {q} : pc'[r] = pc[r] /\ work'[r] = work[r]

LEMMA Goes ==
  ASSUME ProcessTypes, NEW q \in Procs, NEW label \in Labels, NEW w \in Works,
         Goto(q, label), work' = [work EXCEPT ![q] = w]
  PROVE  Turns(q, label, w)
BY DEF ProcessTypes, Goto, Turns

LEMMA GoesOn ==
  ASSUME ProcessTypes, NEW q \in Procs, NEW label \in Labels,
         Goto(q, label), UNCHANGED work
  PROVE  Turns(q, label, work[q])
BY DEF ProcessTypes, Goto, Turns

\* A process that ends leaves only what a verification found.
LEMMA Ends ==
  ASSUME ProcessTypes, NEW q \in Procs, NEW outcome \in Outcomes, End(q, outcome)
  PROVE  Turns(q, "idle", IF outcome \in {"verified", "reused"}
                          THEN [work[q] EXCEPT !.outcome = outcome]
                          ELSE [Idle EXCEPT !.outcome = outcome])
<1> DEFINE w == IF outcome \in {"verified", "reused"}
                THEN [work[q] EXCEPT !.outcome = outcome]
                ELSE [Idle EXCEPT !.outcome = outcome]
<1>1. work' = [work EXCEPT ![q] = w] /\ Goto(q, "idle")
  BY DEF End
<1>2. w \in Works
  BY IdleType DEF ProcessTypes, Works
<1>3. "idle" \in Labels
  BY DEF Labels
<1> HIDE DEF w
<1>4. Turns(q, "idle", w)
  BY <1>1, <1>2, <1>3, Goes
<1> QED
  BY <1>4 DEF w

----------------------------------------------------------------------------
(* The world moves forward.                                                 *)

WorldMoves ==
  /\ now <= now' /\ edits <= edits'
  /\ seen \subseteq seen' /\ activated \subseteq activated'
  /\ \A p \in Packages :
       /\ objects[p] \subseteq objects'[p]
       /\ src'[p] = src[p] \/ src'[p] > edits
       /\ cat'[p] = cat[p] \/ cat'[p] > edits
       /\ \/ generated'[p] = generated[p]
          \/ /\ generated'[p] = GenerationInput(p)
             /\ src'[p] = src[p] /\ cat'[p] = cat[p] /\ tool' = tool
  /\ tool' = tool \/ tool' > edits

\* The part of the invariant that is about the world alone.
Forward == WorldTypes' /\ WorldMoves /\ VersionsPast' /\ MomentSeen'

\* Most steps of a process change no input.
Still == UNCHANGED <<inputs, generated, now, edits, seen>>

LEMMA WorldRests ==
  ASSUME WorldTypes, VersionsPast, MomentSeen, Still,
         objects' \in [Packages -> SUBSET Objects],
         \A p \in Packages : objects[p] \subseteq objects'[p],
         selector' \in [Packages -> Sets \cup {None}],
         record' \in [Packages -> (Sets \X Runtimes) \cup {None}],
         activated \subseteq activated',
         activated' \subseteq Packages \X Sets \X Runtimes
  PROVE  Forward
<1>1. /\ UNCHANGED <<src, cat, tool, generated, now, edits, seen>>
      /\ Moment' = Moment
  BY DEF Still, inputs, Moment
<1>2. WorldTypes'
  BY <1>1 DEF WorldTypes
<1>3. WorldMoves
  BY <1>1 DEF WorldMoves, WorldTypes
<1>4. VersionsPast' /\ MomentSeen'
  BY <1>1 DEF VersionsPast, MomentSeen
<1> QED
  BY <1>2, <1>3, <1>4 DEF Forward

LEMMA ReadingRests ==
  ASSUME WorldTypes, VersionsPast, MomentSeen, Reading
  PROVE  Forward
<1>1. Still /\ UNCHANGED <<objects, selector, record, activated>>
  BY DEF Reading, World, Still, store
<1> QED
  BY <1>1, WorldRests DEF WorldTypes

LEMMA StutterRests ==
  ASSUME WorldTypes, VersionsPast, MomentSeen, UNCHANGED vars
  PROVE  Forward
<1>1. Reading
  BY DEF vars, Reading, World
<1> QED
  BY <1>1, ReadingRests

LEMMA MomentType == WorldTypes => Moment \in Moments
BY DEF WorldTypes, Moment, Moments

LEMMA EditSourcesForward ==
  ASSUME WorldTypes, VersionsPast, MomentSeen, NEW p \in Packages, EditSources(p)
  PROVE  Forward
<1> DEFINE m == [Moment EXCEPT !.src[p] = edits + 1]
<1>1. /\ src' = [src EXCEPT ![p] = edits + 1] /\ edits' = edits + 1
      /\ seen' = seen \cup {<<m, now>>}
      /\ UNCHANGED <<cat, tool, generated, objects, selector, record, now,
                     activated>>
  BY DEF EditSources, Witness, store
<1>2. m = [src |-> [src EXCEPT ![p] = edits + 1], cat |-> cat,
           tool |-> tool, generated |-> generated]
  BY DEF Moment
<1>3. Moment' = m
  BY <1>1, <1>2 DEF Moment
<1>4. [src EXCEPT ![p] = edits + 1] \in [Packages -> Nat]
  BY DEF WorldTypes
<1>5. m \in Moments
  BY <1>2, <1>4, Zenon DEF WorldTypes, Moments
<1> HIDE DEF m
<1>6. WorldTypes'
  BY <1>1, <1>5 DEF WorldTypes
<1>7. WorldMoves
  BY <1>1 DEF WorldMoves, WorldTypes
<1>8. VersionsPast'
  BY <1>1 DEF VersionsPast, WorldTypes
<1>9. MomentSeen'
  BY <1>1, <1>3 DEF MomentSeen
<1> QED
  BY <1>6, <1>7, <1>8, <1>9 DEF Forward

LEMMA EditCatalogForward ==
  ASSUME WorldTypes, VersionsPast, MomentSeen, NEW p \in Packages, EditCatalog(p)
  PROVE  Forward
<1> DEFINE m == [Moment EXCEPT !.cat[p] = edits + 1]
<1>1. /\ cat' = [cat EXCEPT ![p] = edits + 1] /\ edits' = edits + 1
      /\ seen' = seen \cup {<<m, now>>}
      /\ UNCHANGED <<src, tool, generated, objects, selector, record, now,
                     activated>>
  BY DEF EditCatalog, Witness, store
<1>2. m = [src |-> src, cat |-> [cat EXCEPT ![p] = edits + 1],
           tool |-> tool, generated |-> generated]
  BY DEF Moment
<1>3. Moment' = m
  BY <1>1, <1>2 DEF Moment
<1>4. [cat EXCEPT ![p] = edits + 1] \in [Packages -> Nat]
  BY DEF WorldTypes
<1>5. m \in Moments
  BY <1>2, <1>4, Zenon DEF WorldTypes, Moments
<1> HIDE DEF m
<1>6. WorldTypes'
  BY <1>1, <1>5 DEF WorldTypes
<1>7. WorldMoves
  BY <1>1 DEF WorldMoves, WorldTypes
<1>8. VersionsPast'
  BY <1>1 DEF VersionsPast, WorldTypes
<1>9. MomentSeen'
  BY <1>1, <1>3 DEF MomentSeen
<1> QED
  BY <1>6, <1>7, <1>8, <1>9 DEF Forward

LEMMA UpgradeForward ==
  ASSUME WorldTypes, VersionsPast, MomentSeen, Upgrade
  PROVE  Forward
<1> DEFINE m == [Moment EXCEPT !.tool = edits + 1]
<1>1. /\ tool' = edits + 1 /\ edits' = edits + 1
      /\ seen' = seen \cup {<<m, now>>}
      /\ UNCHANGED <<src, cat, generated, objects, selector, record, now, activated>>
  BY DEF Upgrade, Witness, store
<1>2. Moment' = m /\ m \in Moments
  BY <1>1 DEF Moment, WorldTypes, Moments
<1>3. WorldTypes'
  BY <1>1, <1>2 DEF WorldTypes
<1>4. WorldMoves
  BY <1>1 DEF WorldMoves, WorldTypes
<1>5. VersionsPast'
  BY <1>1 DEF VersionsPast, WorldTypes
<1>6. MomentSeen'
  BY <1>1, <1>2 DEF MomentSeen
<1> QED
  BY <1>3, <1>4, <1>5, <1>6 DEF Forward

LEMMA TickForward ==
  ASSUME WorldTypes, VersionsPast, MomentSeen, Tick
  PROVE  Forward
<1>1. /\ now' = now + 1 /\ seen' = seen \cup {<<Moment, now + 1>>}
      /\ UNCHANGED <<src, cat, tool, generated, objects, selector, record, edits,
                     activated>>
      /\ Moment' = Moment
  BY DEF Tick, inputs, store, Moment
<1>2. WorldTypes'
  BY <1>1, MomentType DEF WorldTypes
<1>3. WorldMoves
  BY <1>1 DEF WorldMoves, WorldTypes
<1>4. VersionsPast' /\ MomentSeen'
  BY <1>1 DEF VersionsPast, MomentSeen
<1> QED
  BY <1>2, <1>3, <1>4 DEF Forward

\* A root is regenerated: by a dev server, or by the check that ensures it.
LEMMA RegenerationForward ==
  ASSUME WorldTypes, VersionsPast, MomentSeen, NEW p \in Packages,
         generated' = [generated EXCEPT ![p] = GenerationInput(p)],
         seen' = seen \cup
           {<<[Moment EXCEPT !.generated[p] = GenerationInput(p)], now>>},
         UNCHANGED <<inputs, store, now, edits, activated>>
  PROVE  Forward
<1> DEFINE m == [Moment EXCEPT !.generated[p] = GenerationInput(p)]
<1>1. UNCHANGED <<src, cat, tool, objects, selector, record, now, edits, activated>>
  BY DEF inputs, store
<1>2. GenerationInput(p) \in Nat \X Nat
  BY DEF GenerationInput, WorldTypes
<1>3. m = [src |-> src, cat |-> cat, tool |-> tool,
           generated |-> [generated EXCEPT ![p] = GenerationInput(p)]]
  BY DEF Moment
<1>4. Moment' = m
  BY <1>1, <1>3 DEF Moment
<1>5. m \in Moments
  BY <1>2, <1>3 DEF WorldTypes, Moments
<1>6. seen' = seen \cup {<<m, now>>}
  OBVIOUS
<1>7. generated' \in [Packages -> Nat \X Nat]
  BY <1>2 DEF WorldTypes
<1> HIDE DEF m
<1>8. seen' \subseteq Moments \X Nat
  BY <1>6, <1>5 DEF WorldTypes
<1>9. WorldTypes'
  BY <1>1, <1>7, <1>8 DEF WorldTypes
<1>10. WorldMoves
  BY <1>1, <1>2 DEF WorldMoves, WorldTypes
<1>11. VersionsPast' /\ MomentSeen'
  BY <1>1, <1>4 DEF VersionsPast, MomentSeen, m
<1> QED
  BY <1>9, <1>10, <1>11 DEF Forward

----------------------------------------------------------------------------
(* What a process knows while the others act.                               *)

\* What was accepted stays accepted.
LEMMA AcceptedStays ==
  ASSUME NEW p, NEW s, NEW t, Accepted(p, s, t), activated \subseteq activated'
  PROVE  Accepted(p, s, t)'
BY DEF Accepted

LEMMA WasMomentStays ==
  ASSUME NEW q, WasMoment(q), seen \subseteq seen', work'[q] = work[q]
  PROVE  WasMoment(q)'
BY DEF WasMoment, Binds, Generation

\* A check that rests keeps what it knows.  The case that is not obvious is
\* a regeneration between the second comparison of its catalog and that of
\* its root: the root then agrees again at a moment when all the inputs do.
LEMMA CheckRests ==
  ASSUME WorldTypes, ProcessTypes, VersionsPast, Forward, NEW q \in Checks,
         CheckInv(q), pc'[q] = pc[q], work'[q] = work[q]
  PROVE  CheckInv(q)'
<1> DEFINE p == Home[q]
<1>1. WorldMoves /\ p \in Packages /\ work[q] \in Works
  BY AuthorityConstants DEF Forward, ProcessTypes
<1>2. Began(q)'
  BY <1>1 DEF CheckInv, Began, WorldMoves, Works, Sets, WorldTypes, Forward
<1>3. Written(q)'
  BY <1>1 DEF CheckInv, Written, Installed, WorldMoves
<1>4. Analysed(q)'
  BY <1>1 DEF CheckInv, Analysed, WorldMoves
<1>5. Named(q)'
  BY <1>1, AcceptedStays DEF CheckInv, Named, WorldMoves
<1>6. WasMoment(q) => WasMoment(q)'
  BY <1>1, WasMomentStays DEF WorldMoves
<1>7. src'[p] = work[q].set.src => src[p] = work[q].set.src
  BY <1>1 DEF WorldMoves, CheckInv, Began, Works, Sets, WorldTypes
<1>8. ASSUME pc[q] = "fpGenerated", src'[p] = work[q].set.src,
             generated'[p] = Generation(work[q].set)
      PROVE  WasMoment(q)'
  <2>1. CASE generated'[p] = generated[p]
    BY <2>1, <1>6, <1>7, <1>8 DEF CheckInv, Fingerprinted
  <2>2. CASE generated'[p] # generated[p]
    <3>1. cat'[p] = work[q].set.cat /\ tool' = work[q].set.tool
      BY <2>2, <1>1, <1>8 DEF WorldMoves, GenerationInput, Generation
    <3>2. <<Moment', now'>> \in seen' /\ now' >= work[q].began
      BY <1>2 DEF Forward, MomentSeen, Began, CheckInv
    <3> DEFINE m == Moment'
    <3>3. /\ m.src = src' /\ m.cat = cat' /\ m.tool = tool'
          /\ m.generated = generated'
      BY DEF Moment
    <3> HIDE DEF m
    <3> QED
      BY <3>1, <3>2, <3>3, <1>8 DEF WasMoment, Binds, m, Generation
  <2> QED
    BY <2>1, <2>2
<1>9. Fingerprinted(q)'
  BY <1>6, <1>7, <1>8 DEF CheckInv, Fingerprinted, Generation
<1> QED
  BY <1>2, <1>3, <1>4, <1>5, <1>9 DEF CheckInv

----------------------------------------------------------------------------
(* The steps of a verification.                                             *)

LEMMA ListedType ==
  ASSUME NEW q \in Procs
  PROVE  Listed(q) \in Seq(Packages) /\ Len(Listed(q)) \in Nat
<1>1. CASE q \in Builds
  BY <1>1, AuthorityConstants DEF Listed
<1>2. CASE q \notin Builds
  BY <1>2, AuthorityConstants DEF Listed
<1> QED
  BY <1>1, <1>2

\* The second round skips only what has not been found good.
LEMMA RecheckNext ==
  ASSUME NEW q \in Procs, NEW ok, NEW i \in Nat, NEW next \in Recheck(q, ok, i)
  PROVE  /\ next[1] \in {"recat", "verified"} /\ next[2] \in Nat
         /\ next[1] = "recat" =>
              /\ next[2] \in i + 1 .. Len(Listed(q)) /\ ok[Listed(q)[next[2]]]
              /\ \A j \in i + 1 .. Len(Listed(q)) :
                   ok[Listed(q)[j]] => next[2] <= j
         /\ next[1] = "verified" =>
              \A j \in i + 1 .. Len(Listed(q)) : ~ok[Listed(q)[j]]
<1> DEFINE good == {j \in i + 1 .. Len(Listed(q)) : ok[Listed(q)[j]]}
<1>1. CASE good = {}
  BY <1>1 DEF Recheck
<1>2. CASE good # {}
  <2>1. next \in {"recat"} \X {j \in good : \A k \in good : j <= k}
    BY <1>2 DEF Recheck
  <2> QED
    BY <2>1, ListedType
<1> QED
  BY <1>1, <1>2

\* What a process knows with the result of the package at hand.
Concluded(q, result, i) ==
  [work[q] EXCEPT !.ok = [work[q].ok EXCEPT ![At(q)] = result], !.i = i]

LEMMA ConcludedType ==
  ASSUME ProcessTypes, NEW q \in Procs, NEW result \in BOOLEAN, NEW i \in Nat
  PROVE  Concluded(q, result, i) \in Works
<1>1. work[q] \in Works
  BY DEF ProcessTypes
<1>2. [work[q].ok EXCEPT ![At(q)] = result] \in [Packages -> BOOLEAN]
  BY <1>1 DEF Works
<1> QED
  BY <1>1, <1>2 DEF Concluded, Works

LEMMA FirstRoundTurns ==
  ASSUME ProcessTypes, NEW q \in Procs, NEW result \in BOOLEAN,
         FirstRound(q, result)
  PROVE  LET ok == [work[q].ok EXCEPT ![At(q)] = result]
         IN  \E next :
               /\ Turns(q, next[1], Concluded(q, result, next[2]))
               /\ \/ /\ next = <<"select", work[q].i + 1>>
                     /\ work[q].i < Len(Listed(q))
                  \/ next \in Recheck(q, ok, 0) /\ ~(work[q].i < Len(Listed(q)))
<1> DEFINE ok == [work[q].ok EXCEPT ![At(q)] = result]
           nexts == IF work[q].i < Len(Listed(q))
                    THEN {<<"select", work[q].i + 1>>} ELSE Recheck(q, ok, 0)
<1>1. PICK next \in nexts :
        /\ Goto(q, next[1])
        /\ work' = [work EXCEPT ![q].ok = ok, ![q].i = next[2]]
  BY DEF FirstRound
<1>2. work[q].i \in Nat
  BY DEF ProcessTypes, Works
<1>3. next[1] \in Labels /\ next[2] \in Nat
  <2>1. CASE work[q].i < Len(Listed(q))
    BY <2>1, <1>2 DEF Labels, Verifying
  <2>2. CASE ~(work[q].i < Len(Listed(q)))
    BY <2>2, RecheckNext DEF Labels, Verifying, Round2
  <2> QED
    BY <2>1, <2>2
<1>4. work' = [work EXCEPT ![q] = Concluded(q, result, next[2])]
  BY <1>1 DEF Concluded, ProcessTypes, Works
<1>5. Turns(q, next[1], Concluded(q, result, next[2]))
  BY <1>1, <1>3, <1>4, ConcludedType, Goes
<1> QED
  BY <1>1, <1>5

LEMMA SecondRoundTurns ==
  ASSUME ProcessTypes, NEW q \in Procs, NEW result \in BOOLEAN,
         SecondRound(q, result)
  PROVE  LET ok == [work[q].ok EXCEPT ![At(q)] = result]
         IN  \E next \in Recheck(q, ok, work[q].i) :
               Turns(q, next[1], Concluded(q, result, next[2]))
<1> DEFINE ok == [work[q].ok EXCEPT ![At(q)] = result]
<1>1. PICK next \in Recheck(q, ok, work[q].i) :
        /\ Goto(q, next[1])
        /\ work' = [work EXCEPT ![q].ok = ok, ![q].i = next[2]]
  BY DEF SecondRound
<1>2. work[q].i \in Nat
  BY DEF ProcessTypes, Works
<1>3. next[1] \in Labels /\ next[2] \in Nat
  BY <1>2, RecheckNext DEF Labels, Verifying, Round2
<1>4. work' = [work EXCEPT ![q] = Concluded(q, result, next[2])]
  BY <1>1 DEF Concluded, ProcessTypes, Works
<1>5. Turns(q, next[1], Concluded(q, result, next[2]))
  BY <1>1, <1>3, <1>4, ConcludedType, Goes
<1> QED
  BY <1>5

\* What a process knows when it has read the selector of the package at hand.
Selected(q) ==
  [work[q] EXCEPT !.read = [work[q].read EXCEPT ![At(q)] = selector[At(q)]]]

LEMMA SelectTurns ==
  ASSUME WorldTypes, ProcessTypes, NEW q \in Procs, Select(q)
  PROVE  \/ /\ selector[At(q)] # None /\ Complete(At(q), selector[At(q)])
            /\ Turns(q, "cat", Selected(q))
         \/ FirstRound(q, FALSE)
<1>1. SUFFICES ASSUME selector[At(q)] # None, Complete(At(q), selector[At(q)])
               PROVE  Turns(q, "cat", Selected(q))
  BY DEF Select
<1>2. work[q] \in Works
  BY DEF ProcessTypes
<1>3. [work[q].read EXCEPT ![At(q)] = selector[At(q)]]
        \in [Packages -> Sets \cup {None}]
  BY <1>2 DEF Works, WorldTypes
<1>4. Selected(q) \in Works
  BY <1>2, <1>3 DEF Selected, Works
<1>5. Goto(q, "cat") /\ work' = [work EXCEPT ![q] = Selected(q)]
  BY <1>1 DEF Select, Selected, ProcessTypes, Works
<1> QED
  BY <1>4, <1>5, Goes DEF Labels, Verifying, Round1

\* A comparison goes on with the next family, or has its verdict.
LEMMA CompareTurns ==
  ASSUME ProcessTypes, NEW q \in Procs, NEW same \in BOOLEAN,
         pc[q] \in {"cat", "src", "recat", "resrc"}, Compare(q, same)
  PROVE  \/ same /\ Turns(q, After[pc[q]], work[q])
         \/ ~same /\ Verdict(q, FALSE)
<1>1. CASE same
  <2>1. After[pc[q]] \in Labels
    BY DEF After, Labels, Verifying, Round1, Round2
  <2>2. Goto(q, After[pc[q]]) /\ UNCHANGED work
    BY <1>1 DEF Compare
  <2> QED
    BY <2>1, <2>2, <1>1, GoesOn
<1>2. CASE ~same
  BY <1>2 DEF Compare
<1> QED
  BY <1>1, <1>2

LEMMA VerdictTurns ==
  ASSUME ProcessTypes, NEW q \in Procs, NEW result \in BOOLEAN, Verdict(q, result)
  PROVE  \E label \in Verifying, i \in Nat : Turns(q, label, Concluded(q, result, i))
<1> DEFINE ok == [work[q].ok EXCEPT ![At(q)] = result]
<1>1. work[q].i \in Nat
  BY DEF ProcessTypes, Works
<1>2. CASE FirstRound(q, result)
  <2>1. PICK next :
          /\ Turns(q, next[1], Concluded(q, result, next[2]))
          /\ next = <<"select", work[q].i + 1>> \/ next \in Recheck(q, ok, 0)
    BY <1>2, FirstRoundTurns
  <2>2. next[1] \in Verifying /\ next[2] \in Nat
    BY <1>1, <2>1, RecheckNext DEF Verifying, Round2
  <2> QED
    BY <2>1, <2>2
<1>3. CASE SecondRound(q, result)
  <2>1. PICK next \in Recheck(q, ok, work[q].i) :
          Turns(q, next[1], Concluded(q, result, next[2]))
    BY <1>3, SecondRoundTurns
  <2>2. next[1] \in Verifying /\ next[2] \in Nat
    BY <1>1, <2>1, RecheckNext DEF Verifying, Round2
  <2> QED
    BY <2>1, <2>2
<1> QED
  BY <1>2, <1>3 DEF Verdict

LEMMA ConcludedKeeps ==
  ASSUME ProcessTypes, NEW q \in Procs, NEW result \in BOOLEAN, NEW i \in Nat
  PROVE  /\ Concluded(q, result, i).set = work[q].set
         /\ Concluded(q, result, i).named = work[q].named
         /\ Concluded(q, result, i).read = work[q].read
         /\ Concluded(q, result, i).tool = work[q].tool
         /\ Concluded(q, result, i).runtime = work[q].runtime
         /\ Concluded(q, result, i).linked = work[q].linked
         /\ Concluded(q, result, i).began = work[q].began
         /\ Concluded(q, result, i).outcome = work[q].outcome
         /\ Concluded(q, result, i).i = i
         /\ Concluded(q, result, i).ok = [work[q].ok EXCEPT ![At(q)] = result]
BY DEF Concluded, ProcessTypes, Works

\* The steps that compare what was authorized with what there is.
Compares(q) ==
  Select(q) \/ CompareCatalog(q) \/ CompareSources(q) \/ CompareGenerated(q)

LEMMA ComparesRests == ASSUME NEW q, Compares(q) PROVE Reading
BY  DEF Compares, Select, CompareCatalog, CompareSources, CompareGenerated,
     Compare

\* A process that compares goes on verifying, and keeps the rest of what it
\* knows.
LEMMA ComparesKeeps ==
  ASSUME WorldTypes, ProcessTypes, NEW q \in Procs, Compares(q)
  PROVE  /\ pc[q] \in Verifying /\ pc'[q] \in Verifying
         /\ Turns(q, pc'[q], work'[q])
         /\ work'[q].set = work[q].set /\ work'[q].named = work[q].named
         /\ work'[q].tool = work[q].tool /\ work'[q].runtime = work[q].runtime
         /\ work'[q].linked = work[q].linked /\ work'[q].began = work[q].began
         /\ work'[q].outcome = work[q].outcome
<1> DEFINE Goal == /\ pc'[q] \in Verifying
                   /\ Turns(q, pc'[q], work'[q])
                   /\ work'[q].set = work[q].set /\ work'[q].named = work[q].named
                   /\ work'[q].tool = work[q].tool
                   /\ work'[q].runtime = work[q].runtime
                   /\ work'[q].linked = work[q].linked
                   /\ work'[q].began = work[q].began
                   /\ work'[q].outcome = work[q].outcome
<1> HIDE DEF Goal
<1>1. pc[q] \in Verifying
  BY  DEF Compares, Select, CompareCatalog, CompareSources, CompareGenerated,
       Verifying, Round1, Round2
<1> SUFFICES Goal
  BY <1>1 DEF Goal
<1>2. ASSUME NEW result \in BOOLEAN, Verdict(q, result)
      PROVE  Goal
  <2>1. PICK label \in Verifying, i \in Nat :
          Turns(q, label, Concluded(q, result, i))
    BY <1>2, VerdictTurns
  <2>2. pc'[q] = label /\ work'[q] = Concluded(q, result, i)
    BY <2>1 DEF Turns
  <2>3. Turns(q, pc'[q], work'[q])
    BY <2>1, <2>2
  <2>4. /\ Concluded(q, result, i).set = work[q].set
        /\ Concluded(q, result, i).named = work[q].named
        /\ Concluded(q, result, i).tool = work[q].tool
        /\ Concluded(q, result, i).runtime = work[q].runtime
        /\ Concluded(q, result, i).linked = work[q].linked
        /\ Concluded(q, result, i).began = work[q].began
        /\ Concluded(q, result, i).outcome = work[q].outcome
    BY DEF Concluded, ProcessTypes, Works
  <2> QED
    BY <2>1, <2>2, <2>3, <2>4 DEF Goal
<1>3. ASSUME NEW same \in BOOLEAN, pc[q] \in {"cat", "src", "recat", "resrc"},
             Compare(q, same)
      PROVE  Goal
  <2>1. CASE Turns(q, After[pc[q]], work[q])
    <3>1. pc'[q] = After[pc[q]] /\ work'[q] = work[q]
      BY <2>1 DEF Turns
    <3>2. After[pc[q]] \in Verifying
      BY <1>3 DEF After, Verifying, Round1, Round2
    <3> QED
      BY <2>1, <3>1, <3>2 DEF Goal
  <2> QED
    BY <2>1, <1>2, <1>3, CompareTurns
<1>4. CASE Select(q)
  <2>1. CASE Turns(q, "cat", Selected(q))
    <3>1. pc'[q] = "cat" /\ work'[q] = Selected(q)
      BY <2>1 DEF Turns
    <3>2. Turns(q, pc'[q], work'[q])
      BY <2>1, <3>1
    <3>3. work[q] \in Works
      BY DEF ProcessTypes
    <3> QED
      BY <3>1, <3>2, <3>3 DEF Goal, Selected, Verifying, Round1, Works
  <2>2. CASE FirstRound(q, FALSE)
    <3>1. pc[q] = "select"
      BY <1>4 DEF Select
    <3> QED
      BY <2>2, <3>1, <1>2, Zenon DEF Verdict
  <2> QED
    BY <2>1, <2>2, <1>4, SelectTurns
<1>5. CASE CompareCatalog(q)
  <2> DEFINE same == <<cat[At(q)], Toolchain(q)>> = Generation(Bound(q))
  <2>1. same \in BOOLEAN /\ Compare(q, same) /\ pc[q] \in {"cat", "recat"}
    BY <1>5 DEF CompareCatalog
  <2> QED
    BY <2>1, <1>3
<1>6. CASE CompareSources(q)
  <2> DEFINE same == src[At(q)] = Bound(q).src
  <2>1. same \in BOOLEAN /\ Compare(q, same) /\ pc[q] \in {"src", "resrc"}
    BY <1>6 DEF CompareSources
  <2> QED
    BY <2>1, <1>3
<1>7. CASE CompareGenerated(q)
  <2> DEFINE same == generated[At(q)] = Generation(Bound(q))
  <2>1. same \in BOOLEAN /\ Verdict(q, same)
    BY <1>7 DEF CompareGenerated
  <2> QED
    BY <2>1, <1>2
<1> QED
  BY <1>4, <1>5, <1>6, <1>7 DEF Compares

----------------------------------------------------------------------------
(* The steps of a check.                                                    *)

\* A check that has ended without a result knows nothing more.
LEMMA EndedKnows ==
  ASSUME WorldTypes, Forward, NEW q \in Checks, NEW outcome \in Outcomes \ {"reused"},
         Turns(q, "idle", [Idle EXCEPT !.outcome = outcome])
  PROVE  CheckInv(q)'
<1> DEFINE w == [Idle EXCEPT !.outcome = outcome]
<1>1. pc'[q] = "idle" /\ work'[q] = w
  BY DEF Turns
<1>2. w.set.src = 0 /\ w.began = 0 /\ ~w.linked /\ w.outcome = outcome
  BY DEF Idle, Blank
<1> HIDE DEF w
<1>3. Began(q)'
  BY <1>1, <1>2 DEF Began, Forward, WorldTypes
<1>4. Written(q)' /\ Analysed(q)'
  BY <1>1, <1>2 DEF Written, Analysed, Fingerprinting, Committing, Kinds
<1>5. Named(q)'
  BY <1>1, <1>2 DEF Named, Verifying, Round1, Round2
<1>6. Fingerprinted(q)'
  BY <1>1 DEF Fingerprinted, Committing
<1> QED
  BY <1>3, <1>4, <1>5, <1>6 DEF CheckInv

\* A step of check q: the world moves forward, the other processes rest, and
\* q knows what its label says.
CheckSteps(q) ==
  /\ Forward /\ Turns(q, pc'[q], work'[q]) /\ CheckInv(q)'

LEMMA EndSteps ==
  ASSUME WorldTypes, ProcessTypes, Forward, NEW q \in Checks,
         NEW outcome \in Outcomes \ {"reused", "verified"}, End(q, outcome)
  PROVE  CheckSteps(q)
<1>1. Turns(q, "idle", [Idle EXCEPT !.outcome = outcome])
  BY Ends
<1>2. pc'[q] = "idle" /\ work'[q] = [Idle EXCEPT !.outcome = outcome]
  BY <1>1 DEF Turns
<1>3. Turns(q, pc'[q], work'[q])
  BY <1>1, <1>2
<1> QED
  BY <1>1, <1>3, EndedKnows DEF CheckSteps

\* A check at a label before its set is assembled.
LEMMA PreparingKnows ==
  ASSUME NEW q \in Checks, NEW label \in Preparing, NEW w \in Works,
         Turns(q, label, w), Began(q)', Named(q)', ~w.linked,
         w.runtime \in Runtimes
  PROVE  CheckInv(q)'
<1>1. pc'[q] = label /\ work'[q] = w
  BY DEF Turns
<1>2. Written(q)' /\ Analysed(q)'
  BY <1>1 DEF Written, Analysed, Fingerprinting, Committing, Kinds, Preparing
<1>3. Fingerprinted(q)'
  BY <1>1 DEF Fingerprinted, Committing, Preparing
<1> QED
  BY <1>2, <1>3 DEF CheckInv

LEMMA StartCheckSteps ==
  ASSUME AuthorityInv, NEW q \in Checks, NEW t \in Runtimes, StartCheck(q, t)
  PROVE  CheckSteps(q)
<1> USE DEF AuthorityInv, AuthorityTypes, WorldInv
<1> DEFINE w == [Idle EXCEPT !.runtime = t, !.began = now]
           named == record[Home[q]]
<1>1. Still /\ UNCHANGED <<objects, selector, record, activated>>
  BY DEF StartCheck, Start, Still, store
<1>2. Forward
  BY <1>1, WorldRests DEF WorldTypes
<1>3. w \in Works /\ w.began = now /\ w.runtime = t /\ ~w.linked
      /\ w.outcome = "none" /\ w.set.src = 0
  BY IdleType DEF Works, WorldTypes, Idle, Blank
<1>4. CASE named # None /\ named[2] = t
  <2> DEFINE v == [w EXCEPT !.named = named[1]]
  <2>1. Accepted(Home[q], named[1], t) /\ named[1] \in Sets
    BY <1>4, AuthorityConstants DEF RecordsStand, WorldTypes
  <2> HIDE DEF w
  <2>2. v \in Works /\ v.began = now /\ v.runtime = t /\ ~v.linked
        /\ v.set.src = 0 /\ v.named = named[1]
    BY <2>1, <1>3 DEF Works
  <2>3. Goto(q, "select") /\ work' = [work EXCEPT ![q] = v]
    BY <1>4 DEF StartCheck, Start, w
  <2> HIDE DEF v, named
  <2>4. Turns(q, "select", v)
    BY <2>2, <2>3, Goes DEF Labels, Verifying
  <2>5. pc'[q] = "select" /\ work'[q] = v /\ Turns(q, pc'[q], work'[q])
    BY <2>4 DEF Turns
  <2>6. Began(q)'
    BY <1>2, <2>2, <2>5, <1>1 DEF Began, Forward, WorldTypes, Still
  <2>7. Written(q)' /\ Analysed(q)'
    BY <2>2, <2>5 DEF Written, Analysed, Fingerprinting, Committing, Kinds
  <2>8. Named(q)'
    BY <2>1, <2>2, <2>5, <1>1 DEF Named, Accepted
  <2>9. Fingerprinted(q)'
    BY <2>5 DEF Fingerprinted, Committing
  <2> QED
    BY <1>2, <2>5, <2>6, <2>7, <2>8, <2>9 DEF CheckSteps, CheckInv
<1>5. CASE ~(named # None /\ named[2] = t)
  <2>1. Goto(q, "ensure") /\ work' = [work EXCEPT ![q] = w]
    BY <1>5 DEF StartCheck, Start
  <2> HIDE DEF w, named
  <2>2. Turns(q, "ensure", w)
    BY <1>3, <2>1, Goes DEF Labels, Preparing
  <2>3. pc'[q] = "ensure" /\ work'[q] = w /\ Turns(q, pc'[q], work'[q])
    BY <2>2 DEF Turns
  <2>4. Began(q)'
    BY <1>2, <1>3, <2>3, <1>1 DEF Began, Forward, WorldTypes, Still
  <2>5. Named(q)'
    BY <1>3, <2>3 DEF Named, Verifying, Round1, Round2
  <2>6. CheckInv(q)'
    BY <1>3, <2>2, <2>4, <2>5, PreparingKnows DEF Preparing
  <2> QED
    BY <1>2, <2>3, <2>6 DEF CheckSteps
<1> QED
  BY <1>4, <1>5

LEMMA CheckCompares ==
  ASSUME AuthorityInv, NEW q \in Checks, Compares(q)
  PROVE  CheckSteps(q)
<1> USE DEF AuthorityInv, AuthorityTypes, WorldInv
<1>1. Forward /\ activated' = activated /\ now' = now /\ edits' = edits
  BY ComparesRests, ReadingRests DEF Reading, World
<1>2. /\ pc[q] \in Verifying /\ pc'[q] \in Verifying
      /\ Turns(q, pc'[q], work'[q])
      /\ work'[q].set = work[q].set /\ work'[q].named = work[q].named
      /\ work'[q].runtime = work[q].runtime
      /\ work'[q].linked = work[q].linked /\ work'[q].began = work[q].began
      /\ work'[q].outcome = work[q].outcome
  BY ComparesKeeps
<1>3. CheckInv(q) /\ ~work[q].linked
  BY <1>2 DEF CheckInv, Written, Verifying, Round1, Round2, Kinds
<1>4. Began(q)'
  BY <1>1, <1>2, <1>3 DEF CheckInv, Began
<1>5. Written(q)'
  BY <1>2, <1>3 DEF Written, Verifying, Round1, Round2, Fingerprinting,
       Committing, Kinds
<1>6. Analysed(q)'
  BY <1>2, <1>3 DEF CheckInv, Analysed, Verifying, Round1, Round2,
       Fingerprinting, Committing, Kinds
<1>7. Named(q)'
  BY <1>1, <1>2, <1>3 DEF CheckInv, Named, Accepted
<1>8. Fingerprinted(q)'
  BY <1>2 DEF Fingerprinted, Verifying, Round1, Round2, Committing
<1> QED
  BY <1>1, <1>2, <1>4, <1>5, <1>6, <1>7, <1>8 DEF CheckSteps, CheckInv

\* The set of a check grows by one family.
LEMMA SetType ==
  ASSUME NEW w \in Works, NEW v \in Nat
  PROVE  /\ [w EXCEPT !.set.src = v] \in Works
         /\ [w EXCEPT !.set.cat = v] \in Works
         /\ [w EXCEPT !.set.tool = v] \in Works
         /\ [w EXCEPT !.deadline = v] \in Works
         /\ [w EXCEPT !.linked = TRUE] \in Works
         /\ [w EXCEPT !.linked = FALSE, !.began = v] \in Works
<1>1. w.set \in Sets
  BY DEF Works
<1>2. /\ [w.set EXCEPT !.src = v] \in Sets
      /\ [w.set EXCEPT !.cat = v] \in Sets
      /\ [w.set EXCEPT !.tool = v] \in Sets
  BY <1>1 DEF Sets
<1> QED
  BY <1>2 DEF Works

LEMMA ReuseSteps ==
  ASSUME AuthorityInv, NEW q \in Checks, Reuse(q)
  PROVE  CheckSteps(q)
<1> USE DEF AuthorityInv, AuthorityTypes, WorldInv
<1>1. Forward /\ activated' = activated /\ now' = now /\ edits' = edits
  BY ReadingRests DEF Reuse, Reading, World
<1>2. CheckInv(q) /\ pc[q] = "verified" /\ work[q] \in Works
  BY DEF Reuse, ProcessTypes
<1>3. Accepted(Home[q], work[q].named, work[q].runtime)
  BY <1>2 DEF CheckInv, Named, Verifying
<1>4. ~work[q].linked /\ work[q].runtime \in Runtimes
  BY <1>2 DEF CheckInv, Written, Analysed, Kinds
<1>5. CASE End(q, "reused")
  <2> DEFINE w == [work[q] EXCEPT !.outcome = "reused"]
  <2>1. Turns(q, "idle", w)
    BY <1>5, Ends DEF Outcomes
  <2>2. w.set = work[q].set /\ w.named = work[q].named /\ w.began = work[q].began
        /\ w.runtime = work[q].runtime /\ w.linked = work[q].linked
    BY <1>2 DEF Works
  <2> HIDE DEF w
  <2>3. pc'[q] = "idle" /\ work'[q] = w /\ Turns(q, pc'[q], work'[q])
    BY <2>1 DEF Turns
  <2>4. Began(q)'
    BY <1>1, <1>2, <2>2, <2>3 DEF CheckInv, Began
  <2>5. Written(q)' /\ Analysed(q)'
    BY <1>4, <2>2, <2>3 DEF Written, Analysed, Fingerprinting, Committing,
         Kinds
  <2>6. Named(q)'
    BY <1>1, <1>3, <2>2, <2>3 DEF Named, Accepted
  <2>7. Fingerprinted(q)'
    BY <2>3 DEF Fingerprinted, Committing
  <2> QED
    BY <1>1, <2>3, <2>4, <2>5, <2>6, <2>7 DEF CheckSteps, CheckInv
<1>6. CASE Goto(q, "ensure") /\ UNCHANGED work
  <2>1. Turns(q, "ensure", work[q])
    BY <1>6, GoesOn DEF Labels, Preparing
  <2>2. pc'[q] = "ensure" /\ work'[q] = work[q] /\ Turns(q, pc'[q], work'[q])
    BY <2>1 DEF Turns
  <2>3. Began(q)' /\ Named(q)'
    BY <1>1, <1>2, <1>3, <2>2 DEF CheckInv, Began, Named, Accepted
  <2>4. CheckInv(q)'
    BY <1>2, <1>4, <2>1, <2>3, PreparingKnows DEF Preparing
  <2> QED
    BY <1>1, <2>2, <2>4 DEF CheckSteps
<1> QED
  BY <1>5, <1>6 DEF Reuse

\* A check that prepares its set, with one more of its families or none.
LEMMA PreparesOn ==
  ASSUME AuthorityInv, NEW q \in Checks, Forward, pc[q] \in Preparing,
         NEW label \in Preparing, NEW w \in Works, Turns(q, label, w),
         w.set.src <= edits, w.began = work[q].began, w.linked = work[q].linked,
         w.runtime = work[q].runtime, w.named = work[q].named,
         w.outcome = work[q].outcome
  PROVE  CheckSteps(q)
<1> USE DEF AuthorityInv, AuthorityTypes, WorldInv
<1>1. WorldMoves /\ WorldTypes' /\ CheckInv(q)
  BY DEF Forward
<1>2. pc'[q] = label /\ work'[q] = w /\ Turns(q, pc'[q], work'[q])
  BY DEF Turns
<1>3. Began(q)'
  BY <1>1, <1>2 DEF CheckInv, Began, WorldMoves, WorldTypes, Works, Sets
<1>4. Named(q)'
  BY <1>1, <1>2 DEF CheckInv, Named, WorldMoves, Accepted, Verifying, Round1,
       Round2, Preparing
<1>5. ~w.linked /\ w.runtime \in Runtimes
  BY <1>1 DEF CheckInv, Written, Analysed, Kinds, Preparing
<1> QED
  BY <1>2, <1>3, <1>4, <1>5, PreparingKnows DEF CheckSteps

LEMMA EnsureSteps ==
  ASSUME AuthorityInv, NEW q \in Checks, Ensure(q)
  PROVE  CheckSteps(q)
<1> USE DEF AuthorityInv, AuthorityTypes, WorldInv
<1> DEFINE w == [work[q] EXCEPT !.set.cat = cat[Home[q]]]
<1>1. Home[q] \in Packages /\ work[q] \in Works /\ cat[Home[q]] \in Nat
  BY AuthorityConstants DEF ProcessTypes, WorldTypes
<1>2. Forward
  BY <1>1, RegenerationForward DEF Ensure
<1>3. w \in Works
  BY <1>1, SetType
<1>4. w.set.src = work[q].set.src /\ w.began = work[q].began
      /\ w.linked = work[q].linked /\ w.runtime = work[q].runtime
      /\ w.named = work[q].named /\ w.outcome = work[q].outcome
  BY <1>1 DEF Works, Sets
<1>5. Goto(q, "verify") /\ work' = [work EXCEPT ![q] = w]
  BY DEF Ensure, ProcessTypes
<1> HIDE DEF w
<1>6. Turns(q, "verify", w)
  BY <1>3, <1>5, Goes DEF Labels, Preparing
<1>7. w.set.src <= edits
  BY <1>4 DEF CheckInv, Began
<1> QED
  BY <1>2, <1>3, <1>4, <1>6, <1>7, PreparesOn DEF Preparing, Ensure

LEMMA VerifyCatalogSteps ==
  ASSUME AuthorityInv, NEW q \in Checks, VerifyCatalog(q)
  PROVE  CheckSteps(q)
<1> USE DEF AuthorityInv, AuthorityTypes, WorldInv
<1>1. Forward
  BY ReadingRests DEF VerifyCatalog
<1>2. CASE End(q, "changed")
  BY <1>1, <1>2, EndSteps DEF Outcomes
<1>3. CASE Goto(q, "sources") /\ UNCHANGED work
  <2>1. Turns(q, "sources", work[q])
    BY <1>3, GoesOn DEF Labels, Preparing
  <2>2. work[q] \in Works /\ work[q].set.src <= edits
    BY DEF CheckInv, Began, ProcessTypes
  <2> QED
    BY <1>1, <2>1, <2>2, PreparesOn DEF Preparing, VerifyCatalog
<1> QED
  BY <1>2, <1>3 DEF VerifyCatalog

LEMMA ReadSourcesSteps ==
  ASSUME AuthorityInv, NEW q \in Checks, ReadSources(q)
  PROVE  CheckSteps(q)
<1> USE DEF AuthorityInv, AuthorityTypes, WorldInv
<1> DEFINE w == [work[q] EXCEPT !.set.src = src[Home[q]]]
<1>1. Home[q] \in Packages /\ work[q] \in Works /\ src[Home[q]] \in Nat
  BY AuthorityConstants DEF ProcessTypes, WorldTypes
<1>2. Forward
  BY ReadingRests DEF ReadSources
<1>3. w \in Works
  BY <1>1, SetType
<1>4. w.set.src = src[Home[q]] /\ w.began = work[q].began
      /\ w.linked = work[q].linked /\ w.runtime = work[q].runtime
      /\ w.named = work[q].named /\ w.outcome = work[q].outcome
  BY <1>1 DEF Works, Sets
<1>5. Goto(q, "toolchain") /\ work' = [work EXCEPT ![q] = w]
  BY DEF ReadSources, ProcessTypes
<1> HIDE DEF w
<1>6. Turns(q, "toolchain", w)
  BY <1>3, <1>5, Goes DEF Labels, Preparing
<1>7. w.set.src <= edits
  BY <1>1, <1>4 DEF VersionsPast
<1> QED
  BY <1>2, <1>3, <1>4, <1>6, <1>7, PreparesOn DEF Preparing, ReadSources

LEMMA ReadToolchainSteps ==
  ASSUME AuthorityInv, NEW q \in Checks, ReadToolchain(q)
  PROVE  CheckSteps(q)
<1> USE DEF AuthorityInv, AuthorityTypes, WorldInv
<1> DEFINE w == [work[q] EXCEPT !.set.tool = tool]
<1>1. work[q] \in Works /\ tool \in Nat
  BY DEF ProcessTypes, WorldTypes
<1>2. Forward
  BY ReadingRests DEF ReadToolchain
<1>3. w \in Works
  BY <1>1, SetType
<1>4. w.set.src = work[q].set.src /\ w.began = work[q].began
      /\ w.linked = work[q].linked /\ w.runtime = work[q].runtime
      /\ w.named = work[q].named /\ w.outcome = work[q].outcome
  BY <1>1 DEF Works, Sets
<1>5. Goto(q, "analyze") /\ work' = [work EXCEPT ![q] = w]
  BY DEF ReadToolchain, ProcessTypes
<1> HIDE DEF w
<1>6. Turns(q, "analyze", w)
  BY <1>3, <1>5, Goes DEF Labels, Preparing
<1>7. w.set.src <= edits
  BY <1>4 DEF CheckInv, Began
<1> QED
  BY <1>2, <1>3, <1>4, <1>6, <1>7, PreparesOn DEF Preparing, ReadToolchain

\* A check that publishes keeps its set, and what it may do with it.
LEMMA PublishesOn ==
  ASSUME AuthorityInv, NEW q \in Checks, Forward,
         pc[q] \in {"analyze"} \cup Kinds \cup Fingerprinting \cup {"commit"},
         NEW label \in Kinds \cup Fingerprinting \cup Committing,
         NEW w \in Works, Turns(q, label, w),
         w.set = work[q].set, w.runtime = work[q].runtime,
         w.named = work[q].named, w.outcome = work[q].outcome,
         w.began \in {work[q].began, now},
         <<w.set.src, w.runtime>> \notin Rejected,
         label = "record" => <<Home[q], w.set, w.runtime>> \in activated',
         Written(q)', Fingerprinted(q)'
  PROVE  CheckSteps(q)
<1> USE DEF AuthorityInv, AuthorityTypes, WorldInv
<1>1. WorldMoves /\ WorldTypes' /\ CheckInv(q)
  BY DEF Forward
<1>2. pc'[q] = label /\ work'[q] = w /\ Turns(q, pc'[q], work'[q])
  BY DEF Turns
<1>3. Began(q)'
  BY <1>1, <1>2 DEF CheckInv, Began, WorldMoves, WorldTypes, Works, Sets
<1>4. Named(q)'
  BY <1>1, <1>2 DEF CheckInv, Named, WorldMoves, Accepted, Verifying, Round1,
       Round2, Kinds, Fingerprinting, Committing
<1>5. work[q].runtime \in Runtimes
  BY <1>1 DEF CheckInv, Analysed, Kinds, Fingerprinting
<1>6. Analysed(q)'
  BY <1>1, <1>2, <1>5 DEF Analysed
<1> QED
  BY <1>2, <1>3, <1>4, <1>6 DEF CheckSteps, CheckInv

LEMMA AnalyzeSteps ==
  ASSUME AuthorityInv, NEW q \in Checks, Analyze(q)
  PROVE  CheckSteps(q)
<1> USE DEF AuthorityInv, AuthorityTypes, WorldInv
<1>1. Forward
  BY ReadingRests DEF Analyze
<1>2. CASE End(q, "diagnostics")
  BY <1>1, <1>2, EndSteps DEF Outcomes
<1>3. CASE /\ <<work[q].set.src, work[q].runtime>> \notin Rejected
           /\ Goto(q, "authority") /\ UNCHANGED work
  <2>1. Turns(q, "authority", work[q]) /\ work[q] \in Works
    BY <1>3, GoesOn DEF Labels, Kinds, ProcessTypes
  <2>2. pc'[q] = "authority" /\ work'[q] = work[q]
    BY <2>1 DEF Turns
  <2>3. ~work[q].linked
    BY DEF CheckInv, Written, Kinds, Analyze
  <2>4. Written(q)' /\ Fingerprinted(q)'
    BY <2>2, <2>3 DEF Written, Fingerprinted, Fingerprinting, Committing
  <2> QED
    BY <1>1, <1>3, <2>1, <2>4, PublishesOn DEF Kinds, Analyze
<1> QED
  BY <1>2, <1>3 DEF Analyze

LEMMA LinkObjectSteps ==
  ASSUME AuthorityInv, NEW q \in Checks, LinkObject(q)
  PROVE  CheckSteps(q)
<1> USE DEF AuthorityInv, AuthorityTypes, WorldInv
<1> DEFINE p == Home[q]
           object == [kind |-> pc[q], of |-> work[q].set]
<1>1. /\ p \in Packages /\ work[q] \in Works /\ work[q].set \in Sets
      /\ pc[q] \in Kinds /\ ~work[q].linked /\ object \in Objects
  BY AuthorityConstants DEF ProcessTypes, Works, LinkObject, Objects
<1>2. <<work[q].set.src, work[q].runtime>> \notin Rejected
  BY <1>1 DEF CheckInv, Analysed
<1>3. Still /\ UNCHANGED <<selector, record, activated>>
  BY DEF LinkObject, World, Still
<1>4. CASE object \in objects[p]
  <2>1. objects' = objects /\ Goto(q, AfterObject[pc[q]]) /\ UNCHANGED work
    BY <1>4 DEF LinkObject
  <2>2. Forward
    BY <1>3, <2>1, WorldRests DEF WorldTypes
  <2>3. AfterObject[pc[q]] \in {"receipt", "set", "fpInputs"}
    BY <1>1 DEF AfterObject, Kinds
  <2>4. Turns(q, AfterObject[pc[q]], work[q])
    BY <2>1, <2>3, GoesOn DEF Labels, Kinds, Fingerprinting
  <2>5. pc'[q] = AfterObject[pc[q]] /\ work'[q] = work[q]
    BY <2>4 DEF Turns
  <2>6. Written(q)'
    BY <1>1, <1>4, <2>1, <2>5 DEF CheckInv, Written, Installed, AfterObject,
         Kinds, Fingerprinting, Committing
  <2>7. Fingerprinted(q)'
    BY <2>3, <2>5 DEF Fingerprinted, Committing
  <2> QED
    BY <1>1, <1>2, <2>2, <2>3, <2>4, <2>6, <2>7, PublishesOn
       DEF Kinds, Fingerprinting
<1>5. CASE object \notin objects[p]
  <2> DEFINE w == [work[q] EXCEPT !.linked = TRUE]
  <2>1. /\ objects' = [objects EXCEPT ![p] = @ \cup {object}]
        /\ work' = [work EXCEPT ![q] = w] /\ pc' = pc
    BY <1>5 DEF LinkObject, ProcessTypes
  <2>2. objects' \in [Packages -> SUBSET Objects]
    BY <1>1, <2>1 DEF WorldTypes
  <2>3. \A r \in Packages : objects[r] \subseteq objects'[r]
    BY <1>1, <2>1 DEF WorldTypes
  <2>4. Forward
    BY <1>3, <2>2, <2>3, WorldRests DEF WorldTypes
  <2>5. w \in Works /\ w.set = work[q].set /\ w.began = work[q].began
        /\ w.runtime = work[q].runtime /\ w.named = work[q].named
        /\ w.outcome = work[q].outcome /\ w.linked
    BY <1>1 DEF Works
  <2> HIDE DEF w
  <2>6. Turns(q, pc[q], w)
    BY <2>1, <2>5 DEF Turns, ProcessTypes
  <2>7. pc'[q] = pc[q] /\ work'[q] = w
    BY <2>6 DEF Turns
  <2>8. object \in objects'[p]
    BY <1>1, <2>1 DEF WorldTypes
  <2>9. Written(q)'
    BY <1>1, <2>3, <2>5, <2>7, <2>8 DEF CheckInv, Written, Installed, Kinds,
         Fingerprinting, Committing
  <2>10. Fingerprinted(q)'
    BY <1>1, <2>7 DEF Fingerprinted, Committing, Kinds
  <2>11. pc[q] # "record"
    BY <1>1 DEF Kinds
  <2> QED
    BY <1>1, <1>2, <2>4, <2>5, <2>6, <2>9, <2>10, <2>11, PublishesOn
<1> QED
  BY <1>4, <1>5

LEMMA UnlinkTemporarySteps ==
  ASSUME AuthorityInv, NEW q \in Checks, UnlinkTemporary(q)
  PROVE  CheckSteps(q)
<1> USE DEF AuthorityInv, AuthorityTypes, WorldInv
<1> DEFINE b == IF pc[q] = "set" THEN now ELSE work[q].began
           w == [work[q] EXCEPT !.linked = FALSE, !.began = b]
<1>1. /\ work[q] \in Works /\ pc[q] \in Kinds /\ work[q].linked /\ b \in Nat
  BY DEF ProcessTypes, Works, UnlinkTemporary, WorldTypes
<1>2. <<work[q].set.src, work[q].runtime>> \notin Rejected
  BY <1>1 DEF CheckInv, Analysed
<1>3. Still /\ UNCHANGED <<objects, selector, record, activated>>
  BY DEF UnlinkTemporary, World, Still
<1>4. Forward
  BY <1>3, WorldRests DEF WorldTypes
<1>5. w \in Works
  BY <1>1, SetType
<1>6. w.set = work[q].set /\ w.began = b
      /\ w.runtime = work[q].runtime /\ w.named = work[q].named
      /\ w.outcome = work[q].outcome /\ ~w.linked
  BY <1>1 DEF Works
<1>7. Goto(q, AfterObject[pc[q]]) /\ work' = [work EXCEPT ![q] = w]
  BY DEF UnlinkTemporary, ProcessTypes, Works
<1>8. AfterObject[pc[q]] \in {"receipt", "set", "fpInputs"}
  BY <1>1 DEF AfterObject, Kinds
<1>9. b \in {work[q].began, now}
  OBVIOUS
<1> HIDE DEF w, b
<1>10. Turns(q, AfterObject[pc[q]], w)
  BY <1>5, <1>7, <1>8, Goes DEF Labels, Kinds, Fingerprinting
<1>11. pc'[q] = AfterObject[pc[q]] /\ work'[q] = w
  BY <1>10 DEF Turns
<1>12. Written(q)'
  BY <1>1, <1>3, <1>6, <1>11 DEF CheckInv, Written, Installed, AfterObject,
       Kinds, Fingerprinting, Committing
<1>13. Fingerprinted(q)'
  BY <1>8, <1>11 DEF Fingerprinted, Committing
<1> QED
  BY <1>1, <1>2, <1>4, <1>5, <1>6, <1>8, <1>9, <1>10, <1>12, <1>13,
     PublishesOn
     DEF Kinds, Fingerprinting

LEMMA WrittenStays ==
  ASSUME NEW q \in Checks, WorldMoves, CheckInv(q), Home[q] \in Packages,
         pc[q] \in Fingerprinting \cup Committing,
         pc'[q] \in Fingerprinting \cup Committing,
         work'[q].set = work[q].set, work'[q].linked = work[q].linked
  PROVE  Written(q)'
<1>1. Installed(q, "authority") /\ Installed(q, "receipt") /\ Installed(q, "set")
  BY DEF CheckInv, Written
<1>2. Installed(q, "authority")' /\ Installed(q, "receipt")' /\ Installed(q, "set")'
  BY <1>1 DEF Installed, WorldMoves
<1>3. ~work'[q].linked
  BY DEF CheckInv, Written, Kinds, Fingerprinting, Committing
<1> QED
  BY <1>2, <1>3 DEF Written

LEMMA FingerprintInputsSteps ==
  ASSUME AuthorityInv, NEW q \in Checks, FingerprintInputs(q)
  PROVE  CheckSteps(q)
<1> USE DEF AuthorityInv, AuthorityTypes, WorldInv
<1> DEFINE p == Home[q]
<1>1. Forward /\ WorldMoves /\ p \in Packages /\ work[q] \in Works
  BY ReadingRests, AuthorityConstants DEF FingerprintInputs, Fingerprint,
       Forward, ProcessTypes
<1>2. CASE End(q, "changed")
  BY <1>1, <1>2, EndSteps DEF Outcomes
<1>3. CASE /\ GenerationInput(p) = Generation(work[q].set)
           /\ Goto(q, "fpGenerated") /\ UNCHANGED work
  <2>1. Turns(q, "fpGenerated", work[q])
    BY <1>3, GoesOn DEF Labels, Fingerprinting
  <2>2. /\ pc[q] = "fpInputs" /\ pc'[q] = "fpGenerated" /\ work'[q] = work[q]
        /\ UNCHANGED <<src, cat, tool, generated, seen>>
    BY <2>1 DEF Turns, FingerprintInputs, Fingerprint, Reading, World, inputs
  <2>3. <<work[q].set.src, work[q].runtime>> \notin Rejected
    BY <2>2 DEF CheckInv, Analysed, Fingerprinting
  <2>4. Written(q)'
    BY <1>1, <2>2, WrittenStays DEF Fingerprinting
  <2>5. ASSUME src[p] = work[q].set.src, generated[p] = Generation(work[q].set)
        PROVE  WasMoment(q)'
    <3>1. <<Moment, now>> \in seen' /\ now >= work[q].began
      BY <2>2 DEF MomentSeen, CheckInv, Began
    <3> DEFINE m == Moment
    <3>2. m.src = src /\ m.cat = cat /\ m.tool = tool /\ m.generated = generated
      BY DEF Moment
    <3> HIDE DEF m
    <3>3. Binds(work[q].set, m, p) /\ m.generated[p] = Generation(work[q].set)
      BY <1>3, <2>5, <3>2 DEF Binds, GenerationInput, Generation
    <3> QED
      BY <2>2, <3>1, <3>3 DEF WasMoment, m, Binds, Generation
  <2>6. Fingerprinted(q)'
    BY <2>2, <2>5 DEF Fingerprinted, Committing, Generation
  <2> QED
    BY <1>1, <2>1, <2>2, <2>3, <2>4, <2>6, PublishesOn DEF Fingerprinting
<1> QED
  BY <1>2, <1>3 DEF FingerprintInputs, Fingerprint

LEMMA FingerprintGeneratedSteps ==
  ASSUME AuthorityInv, NEW q \in Checks, FingerprintGenerated(q)
  PROVE  CheckSteps(q)
<1> USE DEF AuthorityInv, AuthorityTypes, WorldInv
<1> DEFINE p == Home[q]
<1>1. Forward /\ WorldMoves /\ p \in Packages /\ work[q] \in Works
  BY ReadingRests, AuthorityConstants DEF FingerprintGenerated, Fingerprint,
       Forward, ProcessTypes
<1>2. CASE End(q, "changed")
  BY <1>1, <1>2, EndSteps DEF Outcomes
<1>3. CASE /\ generated[p] = Generation(work[q].set)
           /\ Goto(q, "fpSources") /\ UNCHANGED work
  <2>1. Turns(q, "fpSources", work[q])
    BY <1>3, GoesOn DEF Labels, Fingerprinting
  <2>2. /\ pc[q] = "fpGenerated" /\ pc'[q] = "fpSources" /\ work'[q] = work[q]
        /\ UNCHANGED <<src, cat, tool, generated, seen>>
    BY <2>1 DEF Turns, FingerprintGenerated, Fingerprint, Reading, World,
         inputs
  <2>3. <<work[q].set.src, work[q].runtime>> \notin Rejected
    BY <2>2 DEF CheckInv, Analysed, Fingerprinting
  <2>4. Written(q)'
    BY <1>1, <2>2, WrittenStays DEF Fingerprinting
  <2>5. src[p] = work[q].set.src => WasMoment(q)'
    BY <1>3, <2>2, WasMomentStays DEF CheckInv, Fingerprinted
  <2>6. Fingerprinted(q)'
    BY <2>2, <2>5 DEF Fingerprinted, Committing
  <2> QED
    BY <1>1, <2>1, <2>2, <2>3, <2>4, <2>6, PublishesOn DEF Fingerprinting
<1> QED
  BY <1>2, <1>3 DEF FingerprintGenerated, Fingerprint

LEMMA FingerprintSourcesSteps ==
  ASSUME AuthorityInv, NEW q \in Checks, FingerprintSources(q)
  PROVE  CheckSteps(q)
<1> USE DEF AuthorityInv, AuthorityTypes, WorldInv
<1> DEFINE p == Home[q]
           w == [work[q] EXCEPT !.deadline = now + Window]
<1>1. Forward /\ WorldMoves /\ p \in Packages /\ work[q] \in Works
  BY ReadingRests, AuthorityConstants DEF FingerprintSources, Forward,
       ProcessTypes
<1>2. CASE End(q, "changed")
  BY <1>1, <1>2, EndSteps DEF Outcomes
<1>3. CASE /\ src[p] = work[q].set.src
           /\ Goto(q, "commit") /\ work' = [work EXCEPT ![q].deadline = now + Window]
  <2>1. Window \in Nat
    BY AuthorityConstants
  <2>2. now + Window \in Nat
    BY <2>1 DEF WorldTypes
  <2>3. w \in Works
    BY <1>1, <2>2, SetType
  <2>4. work' = [work EXCEPT ![q] = w]
    BY <1>3 DEF ProcessTypes
  <2>5. /\ w.set = work[q].set /\ w.began = work[q].began
        /\ w.runtime = work[q].runtime /\ w.named = work[q].named
        /\ w.outcome = work[q].outcome /\ w.linked = work[q].linked
    BY <1>1 DEF Works
  <2> HIDE DEF w
  <2>6. Turns(q, "commit", w)
    BY <1>3, <2>3, <2>4, Goes DEF Labels, Committing
  <2>7. /\ pc[q] = "fpSources" /\ pc'[q] = "commit" /\ work'[q] = w
        /\ UNCHANGED seen
    BY <2>6 DEF Turns, FingerprintSources, Reading, World
  <2>8. <<work[q].set.src, work[q].runtime>> \notin Rejected
    BY <2>7 DEF CheckInv, Analysed, Fingerprinting
  <2>9. Written(q)'
    BY <1>1, <2>5, <2>7, WrittenStays DEF Fingerprinting, Committing
  <2>10. WasMoment(q)
    BY <1>3, <2>7 DEF CheckInv, Fingerprinted
  <2>11. WasMoment(q)'
    BY <2>5, <2>7, <2>10 DEF WasMoment, Binds, Generation
  <2>12. Fingerprinted(q)'
    BY <2>7, <2>11 DEF Fingerprinted
  <2> QED
    BY <1>1, <2>3, <2>5, <2>6, <2>7, <2>8, <2>9, <2>12, PublishesOn
       DEF Fingerprinting, Committing
<1> QED
  BY <1>2, <1>3 DEF FingerprintSources

LEMMA CommitSteps ==
  ASSUME AuthorityInv, NEW q \in Checks, Commit(q)
  PROVE  CheckSteps(q)
<1> USE DEF AuthorityInv, AuthorityTypes, WorldInv
<1> DEFINE p == Home[q]
<1>1. /\ p \in Packages /\ work[q] \in Works /\ work[q].set \in Sets
      /\ pc[q] = "commit" /\ Still /\ UNCHANGED <<objects, record>>
  BY AuthorityConstants DEF Commit, ProcessTypes, Works, World, Still
<1>2. CASE End(q, "expired") /\ UNCHANGED <<selector, activated>>
  <2>1. Forward
    BY <1>1, <1>2, WorldRests DEF WorldTypes
  <2> QED
    BY <1>2, <2>1, EndSteps DEF Outcomes
<1>3. CASE /\ selector' = [selector EXCEPT ![p] = work[q].set]
           /\ activated' = activated \cup {<<p, work[q].set, work[q].runtime>>}
           /\ Goto(q, "record") /\ UNCHANGED work
  <2>1. work[q].runtime \in Runtimes
        /\ <<work[q].set.src, work[q].runtime>> \notin Rejected
    BY <1>1 DEF CheckInv, Analysed, Committing
  <2>2. selector' \in [Packages -> Sets \cup {None}]
    BY <1>1, <1>3 DEF WorldTypes
  <2>3. activated' \subseteq Packages \X Sets \X Runtimes
    BY <1>1, <1>3, <2>1 DEF WorldTypes
  <2>4. Forward /\ WorldMoves
    BY <1>1, <1>3, <2>2, <2>3, WorldRests DEF WorldTypes, Forward
  <2>5. Turns(q, "record", work[q])
    BY <1>3, GoesOn DEF Labels, Committing
  <2>6. pc'[q] = "record" /\ work'[q] = work[q]
    BY <2>5 DEF Turns
  <2>7. Written(q)'
    BY <1>1, <2>4, <2>6, WrittenStays DEF Committing
  <2>8. WasMoment(q)'
    BY <1>1, <2>4, <2>6, WasMomentStays DEF CheckInv, Fingerprinted,
         Committing, WorldMoves
  <2>9. Fingerprinted(q)'
    BY <2>6, <2>8 DEF Fingerprinted
  <2> QED
    BY <1>1, <1>3, <2>1, <2>4, <2>5, <2>7, <2>9, PublishesOn DEF Committing
<1> QED
  BY <1>2, <1>3 DEF Commit

LEMMA WriteRecordSteps ==
  ASSUME AuthorityInv, NEW q \in Checks, WriteRecord(q)
  PROVE  CheckSteps(q)
<1> USE DEF AuthorityInv, AuthorityTypes, WorldInv
<1>1. Home[q] \in Packages /\ work[q].set \in Sets /\ work[q].runtime \in Runtimes
  BY AuthorityConstants DEF WriteRecord, ProcessTypes, Works, CheckInv,
       Analysed
<1>2. record' \in [Packages -> (Sets \X Runtimes) \cup {None}]
  BY <1>1 DEF WriteRecord, WorldTypes
<1>3. Still /\ UNCHANGED <<objects, selector, activated>> /\ End(q, "authorized")
  BY DEF WriteRecord, World, Still
<1>4. Forward
  BY <1>2, <1>3, WorldRests DEF WorldTypes
<1> QED
  BY <1>3, <1>4, EndSteps DEF Outcomes

LEMMA KillSteps ==
  ASSUME AuthorityInv, NEW q \in Checks, Kill(q)
  PROVE  CheckSteps(q)
<1> USE DEF AuthorityInv, AuthorityTypes, WorldInv
<1>1. Still /\ UNCHANGED <<objects, selector, record, activated>> /\ End(q, "killed")
  BY DEF Kill, Still, store
<1>2. Forward
  BY <1>1, WorldRests DEF WorldTypes
<1> QED
  BY <1>1, <1>2, EndSteps DEF Outcomes

----------------------------------------------------------------------------
(* The steps of a build.                                                    *)

\* What the first round found out about package p keeps: while its inputs
\* are still those of set s, nothing regenerates its root to something else,
\* and once they have changed they never come back.
LEMMA KnownStays ==
  ASSUME WorldTypes, WorldTypes', WorldMoves, NEW q, NEW p \in Packages, NEW s,
         work[q].tool \in Nat, work[q].tool <= edits, work'[q].tool = work[q].tool,
         Known(q, p, s)
  PROVE  Known(q, p, s)'
<1>1. /\ s \in Sets \ {None} /\ s.tool = work[q].tool
      /\ s.cat <= edits /\ s.src <= edits
      /\ edits <= edits' /\ edits \in Nat /\ edits' \in Nat
  BY DEF Known, SourcesKnown, CatalogKnown, WorldMoves, WorldTypes
<1>2. SourcesKnown(q, p, s)'
  BY <1>1 DEF SourcesKnown, CatalogKnown, Sets
<1>3. ASSUME <<cat'[p], tool'>> = <<s.cat, s.tool>>
      PROVE  generated'[p] = <<s.cat, s.tool>>
  <2>1. cat'[p] = cat[p] /\ tool' = tool
    BY <1>1, <1>3 DEF WorldMoves, WorldTypes, Sets
  <2>2. generated[p] = <<s.cat, s.tool>>
    BY <1>3, <2>1 DEF Known, GenerationInput, Generation
  <2> QED
    BY <1>3, <2>1, <2>2 DEF WorldMoves, GenerationInput
<1> QED
  BY <1>2, <1>3 DEF Known, GenerationInput, Generation

\* The moment between the rounds keeps suiting a package found good.
LEMMA SuitsStays ==
  ASSUME WorldTypes, WorldTypes', WorldMoves, NEW q, NEW p \in Packages, NEW s, NEW m,
         work[q].tool <= edits, Known(q, p, s), Suits(m, p, s)
  PROVE  Suits(m, p, s)'
<1>1. /\ s \in Sets /\ s.tool <= edits /\ s.cat <= edits /\ s.src <= edits
      /\ edits \in Nat
  BY DEF Known, SourcesKnown, CatalogKnown, WorldTypes
<1>2. /\ cat'[p] = s.cat => cat[p] = s.cat
      /\ src'[p] = s.src => src[p] = s.src
      /\ tool' = s.tool => tool = s.tool
  BY <1>1 DEF WorldMoves, WorldTypes, Sets
<1>3. <<cat'[p], tool'>> = <<s.cat, s.tool>> => <<cat[p], tool>> = <<s.cat, s.tool>>
  BY <1>2
<1>4. generated'[p] = <<s.cat, s.tool>> =>
        generated[p] = <<s.cat, s.tool>> \/ <<cat[p], tool>> = <<s.cat, s.tool>>
  BY DEF WorldMoves, GenerationInput
<1> QED
  BY <1>2, <1>3, <1>4 DEF Suits, GenerationInput, Generation

\* A build that rests keeps what it knows.
LEMMA BuildRests ==
  ASSUME WorldTypes, ProcessTypes, Forward, NEW q \in Builds,
         BuildInv(q), pc'[q] = pc[q], work'[q] = work[q]
  PROVE  BuildInv(q)'
<1>1. WorldMoves /\ WorldTypes' /\ work[q] \in Works
  BY DEF Forward, ProcessTypes
<1>2. ReadStands(q)'
  BY <1>1, AcceptedStays DEF BuildInv, ReadStands, WorldMoves
<1>3. Place(q)'
  BY <1>1 DEF BuildInv, Place, WorldMoves, WorldTypes, Works
<1>4. FirstKnown(q)'
  BY <1>1 DEF BuildInv, FirstKnown, CatalogKnown, SourcesKnown, WorldMoves,
       WorldTypes, Sets
<1>5. ASSUME NEW p \in Packages, pc[q] # "idle", work[q].ok[p]
      PROVE  Known(q, p, work[q].read[p]) /\ Known(q, p, work[q].read[p])'
  <2>1. Known(q, p, work[q].read[p])
    BY <1>5 DEF BuildInv, GoodKnown
  <2> DEFINE s == work[q].read[p]
  <2>2. Known(q, p, s) /\ work[q].tool <= edits /\ work[q].tool \in Nat
    BY <1>1, <2>1 DEF BuildInv, Place, Works
  <2>3. PICK r : r = s
    OBVIOUS
  <2>4. Known(q, p, r)'
    BY <1>1, <2>2, <2>3, KnownStays
  <2> QED
    BY <2>1, <2>3, <2>4 DEF Known, SourcesKnown, CatalogKnown, Generation
<1>6. GoodKnown(q)'
  BY <1>5 DEF GoodKnown
<1>7. BetweenRounds(q)'
  <2> SUFFICES ASSUME pc[q] \in Round2 \cup {"verified"}
               PROVE  BetweenRounds(q)'
    BY DEF BetweenRounds
  <2>1. PICK e \in seen : e[2] >= work[q].began /\ SecondKnown(q, e[1])
    BY DEF BuildInv, BetweenRounds
  <2> DEFINE m == e[1]
  <2>2. pc[q] # "idle"
    BY DEF Round2
  <2>3. tool' = work[q].tool => m.tool = work[q].tool
    BY <1>1, <2>1 DEF SecondKnown, WorldMoves, WorldTypes, BuildInv, Place,
         Works
  <2>4. ASSUME NEW p \in Packages, work[q].ok[p]
        PROVE  Suits(m, p, work[q].read[p])'
    <3>1. Suits(m, p, work[q].read[p]) /\ work[q].tool <= edits
      BY <2>1, <2>4 DEF SecondKnown, BuildInv, Place
    <3>2. Known(q, p, work[q].read[p])
      BY <1>5, <2>2, <2>4
    <3>3. PICK r : r = work[q].read[p]
      OBVIOUS
    <3>4. Suits(m, p, r)'
      BY <1>1, <3>1, <3>2, <3>3, SuitsStays
    <3> QED
      BY <3>3, <3>4 DEF Suits, Generation
  <2>5. SecondKnown(q, m)'
    BY <2>1, <2>3, <2>4 DEF SecondKnown, Confirmed, Generation
  <2>6. e \in seen'
    BY <1>1 DEF WorldMoves
  <2> QED
    BY <2>1, <2>5, <2>6 DEF BetweenRounds
<1>8. Verified(q)'
  BY <1>1 DEF BuildInv, Verified, WorldMoves, Binds, Generation
<1> QED
  BY <1>2, <1>3, <1>4, <1>6, <1>7, <1>8 DEF BuildInv

\* A step of build q: the world moves forward, the other processes rest, and
\* q knows what its label says.
BuildSteps(q) ==
  /\ Forward /\ Turns(q, pc'[q], work'[q]) /\ BuildInv(q)'

LEMMA OrderType ==
  /\ Order \in Seq(Packages) /\ Len(Order) \in Nat /\ DOMAIN Order = 1..Len(Order)
  /\ 1 \in DOMAIN Order
  /\ \A i \in DOMAIN Order : Order[i] \in Packages
  /\ \A p \in Packages : \E i \in DOMAIN Order : Order[i] = p
  /\ \A i, j \in DOMAIN Order : Order[i] = Order[j] => i = j
<1>1. Order \in Seq(Packages)
  BY AuthorityConstants
<1>2. Len(Order) \in Nat /\ DOMAIN Order = 1..Len(Order)
  BY <1>1
<1>3. \A p \in Packages : \E i \in DOMAIN Order : Order[i] = p
  BY AuthorityConstants
<1>4. 1 \in DOMAIN Order
  BY <1>2, <1>3, AuthorityConstants
<1>5. \A i \in DOMAIN Order : Order[i] \in Packages
  BY <1>1
<1> QED
  BY <1>1, <1>2, <1>3, <1>4, <1>5, AuthorityConstants

LEMMA StartBuildSteps ==
  ASSUME AuthorityInv, NEW q \in Builds, StartBuild(q)
  PROVE  BuildSteps(q)
<1> USE DEF AuthorityInv, AuthorityTypes, WorldInv
<1> DEFINE w == [Idle EXCEPT !.tool = tool, !.began = now]
<1>1. Still /\ UNCHANGED <<objects, selector, record, activated>>
  BY DEF StartBuild, Start, Still, store
<1>2. Forward /\ tool' = tool /\ now' = now /\ edits' = edits
  BY <1>1, WorldRests DEF WorldTypes, Still, inputs
<1>3. w \in Works
  BY IdleType DEF Works, WorldTypes
<1>4. /\ w.tool = tool /\ w.began = now /\ w.i = 1 /\ w.outcome = "none"
      /\ \A p \in Packages : w.read[p] = None /\ ~w.ok[p]
  BY DEF Idle
<1>5. Goto(q, "select") /\ work' = [work EXCEPT ![q] = w]
  BY DEF StartBuild, Start
<1> HIDE DEF w
<1>6. Turns(q, "select", w)
  BY <1>3, <1>5, Goes DEF Labels, Verifying
<1>7. pc'[q] = "select" /\ work'[q] = w /\ Turns(q, pc'[q], work'[q])
  BY <1>6 DEF Turns
<1>8. ReadStands(q)'
  BY <1>4, <1>7 DEF ReadStands
<1>9. Place(q)'
  BY <1>2, <1>4, <1>7, OrderType DEF Place, WorldTypes, VersionsPast
<1>10. FirstKnown(q)'
  BY <1>4, <1>7, OrderType DEF FirstKnown
<1>11. GoodKnown(q)'
  BY <1>4, <1>7 DEF GoodKnown
<1>12. BetweenRounds(q)' /\ Verified(q)'
  BY <1>4, <1>7 DEF BetweenRounds, Verified, Round2
<1> QED
  BY <1>2, <1>7, <1>8, <1>9, <1>10, <1>11, <1>12 DEF BuildSteps, BuildInv

LEMMA EndBuildSteps ==
  ASSUME AuthorityInv, NEW q \in Builds, EndBuild(q)
  PROVE  BuildSteps(q)
<1> USE DEF AuthorityInv, AuthorityTypes, WorldInv
<1>1. Forward /\ WorldMoves /\ UNCHANGED <<now, edits, tool, seen>>
  BY ReadingRests DEF EndBuild, Reading, World, Forward, inputs
<1>2. BuildInv(q) /\ pc[q] = "verified" /\ work[q] \in Works
  BY DEF EndBuild, ProcessTypes
<1>3. CASE /\ End(q, "verified")
           /\ tool = work[q].tool /\ \A i \in DOMAIN Order : work[q].ok[Order[i]]
  <2> DEFINE w == [work[q] EXCEPT !.outcome = "verified"]
  <2>1. Turns(q, "idle", w)
    BY <1>3, Ends DEF Outcomes
  <2>2. w.read = work[q].read /\ w.began = work[q].began /\ w.tool = work[q].tool
    BY <1>2 DEF Works
  <2> HIDE DEF w
  <2>3. pc'[q] = "idle" /\ work'[q] = w /\ Turns(q, pc'[q], work'[q])
    BY <2>1 DEF Turns
  <2>4. ReadStands(q)'
    BY <1>1, <1>2, <2>2, <2>3, AcceptedStays DEF BuildInv, ReadStands,
         WorldMoves
  <2>5. Place(q)'
    BY <1>1, <1>2, <2>2, <2>3 DEF BuildInv, Place, Round1, Round2
  <2>6. FirstKnown(q)' /\ GoodKnown(q)' /\ BetweenRounds(q)'
    BY <2>3 DEF FirstKnown, GoodKnown, BetweenRounds, Round1, Round2
  <2>7. PICK e \in seen : e[2] >= work[q].began /\ SecondKnown(q, e[1])
    BY <1>2 DEF BuildInv, BetweenRounds
  <2>8. ASSUME NEW p \in Packages
        PROVE  /\ work[q].read[p] \in Sets \ {None}
               /\ Binds(work[q].read[p], e[1], p)
               /\ e[1].generated[p] = Generation(work[q].read[p])
    <3>1. PICK i \in DOMAIN Order : Order[i] = p
      BY OrderType
    <3>2. Confirmed(e[1], p, work[q].read[p])
      BY <1>2, <1>3, <2>7, <3>1 DEF SecondKnown
    <3>3. work[q].read[p] \in Sets \ {None} /\ work[q].read[p].tool = work[q].tool
      BY <1>2, <1>3, <3>1 DEF BuildInv, GoodKnown, Known, SourcesKnown,
           CatalogKnown
    <3>4. e[1].tool = work[q].tool
      BY <1>3, <2>7 DEF SecondKnown
    <3> QED
      BY <3>2, <3>3, <3>4 DEF Confirmed, Binds
  <2>9. Verified(q)'
    BY <1>1, <2>2, <2>3, <2>7, <2>8 DEF Verified, Binds, Generation
  <2> QED
    BY <1>1, <2>3, <2>4, <2>5, <2>6, <2>9 DEF BuildSteps, BuildInv
<1>4. CASE End(q, "rejected")
  <2> DEFINE w == [Idle EXCEPT !.outcome = "rejected"]
  <2>1. Turns(q, "idle", w)
    BY <1>4, Ends DEF Outcomes
  <2>2. /\ w.began = 0 /\ w.tool = 0 /\ w.outcome = "rejected"
        /\ \A p \in Packages : w.read[p] = None
    BY DEF Idle
  <2> HIDE DEF w
  <2>3. pc'[q] = "idle" /\ work'[q] = w /\ Turns(q, pc'[q], work'[q])
    BY <2>1 DEF Turns
  <2>4. ReadStands(q)' /\ Verified(q)'
    BY <2>2, <2>3 DEF ReadStands, Verified
  <2>5. Place(q)'
    BY <1>1, <2>2, <2>3 DEF Place, Round1, Round2, WorldTypes
  <2>6. FirstKnown(q)' /\ GoodKnown(q)' /\ BetweenRounds(q)'
    BY <2>3 DEF FirstKnown, GoodKnown, BetweenRounds, Round1, Round2
  <2> QED
    BY <1>1, <2>3, <2>4, <2>5, <2>6 DEF BuildSteps, BuildInv
<1> QED
  BY <1>3, <1>4 DEF EndBuild

\* The package at hand in a build.
LEMMA AtHand ==
  ASSUME NEW q \in Builds, Place(q),
         pc[q] \in {"select"} \cup Round1 \cup Round2
  PROVE  /\ work[q].i \in DOMAIN Order /\ At(q) = Order[work[q].i]
         /\ At(q) \in Packages /\ Listed(q) = Order
BY OrderType DEF Place, At, Listed

\* While nothing changes, what is known of a package stays known.
LEMMA KnownStill ==
  ASSUME NEW q, NEW p, NEW s, Known(q, p, s), work'[q].tool = work[q].tool,
         UNCHANGED <<src, cat, tool, generated, edits>>
  PROVE  Known(q, p, s)'
BY DEF Known, SourcesKnown, CatalogKnown, GenerationInput, Generation

LEMMA FirstRoundSteps ==
  ASSUME AuthorityInv, NEW q \in Builds, pc[q] \in {"select"} \cup Round1, Reading,
         NEW result \in BOOLEAN, FirstRound(q, result),
         result => Known(q, At(q), work[q].read[At(q)])
  PROVE  BuildSteps(q)
<1> USE DEF AuthorityInv, AuthorityTypes, WorldInv
<1>1. Forward /\ UNCHANGED <<src, cat, tool, generated, seen, now, edits, activated>>
  BY ReadingRests DEF Reading, World, inputs
<1>2. BuildInv(q) /\ work[q] \in Works
  BY DEF ProcessTypes
<1>3. /\ work[q].i \in DOMAIN Order /\ At(q) = Order[work[q].i] /\ At(q) \in Packages
      /\ Listed(q) = Order
  BY <1>2, AtHand DEF BuildInv
<1> DEFINE ok == [work[q].ok EXCEPT ![At(q)] = result]
<1>4. PICK next :
        /\ Turns(q, next[1], Concluded(q, result, next[2]))
        /\ \/ /\ next = <<"select", work[q].i + 1>>
              /\ work[q].i < Len(Listed(q))
           \/ next \in Recheck(q, ok, 0) /\ ~(work[q].i < Len(Listed(q)))
  BY FirstRoundTurns
<1>5. next[1] \in {"select", "recat", "verified"} /\ next[2] \in Nat
  BY <1>2, <1>4, RecheckNext DEF Works
<1>6. /\ pc'[q] = next[1] /\ work'[q] = Concluded(q, result, next[2])
      /\ Turns(q, pc'[q], work'[q])
  BY <1>4 DEF Turns
<1>7. /\ work'[q].read = work[q].read /\ work'[q].tool = work[q].tool
      /\ work'[q].began = work[q].began /\ work'[q].outcome = work[q].outcome
      /\ work'[q].i = next[2] /\ work'[q].ok = ok
  BY <1>5, <1>6, ConcludedKeeps
<1>8. ok \in [Packages -> BOOLEAN]
  BY <1>2 DEF Works
<1>9. ASSUME NEW p \in Packages, ok[p]
      PROVE  Known(q, p, work[q].read[p])
  <2>1. CASE p = At(q)
    BY <1>2, <1>3, <1>9, <2>1 DEF Works
  <2>2. CASE p # At(q)
    <3>1. work[q].ok[p]
      BY <1>2, <1>9, <2>2 DEF Works
    <3> QED
      BY <1>2, <3>1 DEF BuildInv, GoodKnown, Round1
  <2> QED
    BY <2>1, <2>2
<1> HIDE DEF ok
<1>10. ReadStands(q)'
  BY <1>1, <1>2, <1>7, AcceptedStays DEF BuildInv, ReadStands
<1>11. work'[q].outcome # "verified"
  BY <1>2, <1>7 DEF BuildInv, Verified, Round1
<1>12. Verified(q)'
  BY <1>11 DEF Verified
<1>13. GoodKnown(q)'
  <2>1. ASSUME NEW p \in Packages, ok[p]
        PROVE  Known(q, p, work[q].read[p])'
    <3>1. PICK r : r = work[q].read[p]
      OBVIOUS
    <3>2. Known(q, p, r)'
      BY <1>1, <1>7, <1>9, <2>1, <3>1, KnownStill
    <3> QED
      BY <3>1, <3>2, <1>1, <1>7, <1>9, <2>1 DEF Known, SourcesKnown,
           CatalogKnown, GenerationInput, Generation
  <2> QED
    BY <1>7, <2>1, <1>1, <1>9 DEF GoodKnown, Known, SourcesKnown,
         CatalogKnown, GenerationInput, Generation
<1>14. CASE next = <<"select", work[q].i + 1>> /\ work[q].i < Len(Listed(q))
  <2>1. work[q].i + 1 \in DOMAIN Order
    BY <1>3, <1>14, OrderType
  <2>2. Place(q)'
    BY <1>1, <1>2, <1>6, <1>7, <1>14, <2>1 DEF BuildInv, Place
  <2>3. ASSUME NEW j \in DOMAIN Order, j >= work[q].i + 1
        PROVE  ~ok[Order[j]]
    <3>1. Order[j] # At(q) /\ j >= work[q].i /\ Order[j] \in Packages
      BY <1>3, <2>3, OrderType
    <3>2. ~work[q].ok[Order[j]]
      BY <1>2, <3>1 DEF BuildInv, FirstKnown
    <3> QED
      BY <1>2, <3>1, <3>2 DEF ok, Works
  <2>4. FirstKnown(q)'
    BY <1>6, <1>7, <1>14, <2>3 DEF FirstKnown
  <2>5. BetweenRounds(q)'
    BY <1>6, <1>14 DEF BetweenRounds, Round2
  <2> QED
    BY <1>1, <1>6, <1>10, <1>12, <1>13, <2>2, <2>4, <2>5
       DEF BuildSteps, BuildInv
<1>15. CASE next \in Recheck(q, ok, 0)
  <2>1. /\ next[1] \in {"recat", "verified"}
        /\ next[1] = "recat" =>
             /\ next[2] \in DOMAIN Order /\ ok[Order[next[2]]]
             /\ \A j \in DOMAIN Order : ok[Order[j]] => next[2] <= j
        /\ next[1] = "verified" => \A j \in DOMAIN Order : ~ok[Order[j]]
    BY <1>3, <1>15, RecheckNext, OrderType
  <2>2. Place(q)'
    BY <1>1, <1>2, <1>6, <1>7, <2>1 DEF BuildInv, Place, Round1, Round2
  <2>3. FirstKnown(q)'
    BY <1>6, <2>1 DEF FirstKnown, Round1
  <2> DEFINE m == Moment
  <2>4. m.src = src /\ m.cat = cat /\ m.tool = tool /\ m.generated = generated
    BY DEF Moment
  <2>5. <<m, now>> \in seen
    BY DEF MomentSeen
  <2> HIDE DEF m
  <2>6. ASSUME NEW p \in Packages, ok[p]
        PROVE  Suits(m, p, work[q].read[p])
    BY <1>9, <2>4, <2>6 DEF Suits, Known
  <2>7. PICK e : e = <<m, now>>
    OBVIOUS
  <2>8. SecondKnown(q, e[1])'
    <3>1. tool' = work'[q].tool => e[1].tool = work'[q].tool
      BY <1>1, <2>4, <2>7
    <3>2. ASSUME NEW p \in Packages, ok[p]
          PROVE  Suits(e[1], p, work[q].read[p])'
      BY <1>1, <1>7, <2>6, <2>7, <3>2 DEF Suits, Generation, GenerationInput
    <3>3. ASSUME NEW j \in DOMAIN Order, ok[Order[j]]
          PROVE  pc'[q] # "verified" /\ ~(j < work'[q].i)
      BY <1>5, <1>6, <1>7, <2>1, <3>3, OrderType
    <3>4. /\ pc'[q] \in Round2 => ok[Order[work'[q].i]]
          /\ pc'[q] \notin {"resrc", "regen"}
      BY <1>6, <1>7, <2>1 DEF Round2
    <3> QED
      BY <1>7, <3>1, <3>2, <3>3, <3>4 DEF SecondKnown
  <2>9. e \in seen' /\ e[2] >= work'[q].began
    BY <1>1, <1>2, <1>7, <2>5, <2>7 DEF BuildInv, Place
  <2>10. BetweenRounds(q)'
    BY <2>8, <2>9 DEF BetweenRounds
  <2> QED
    BY <1>1, <1>6, <1>10, <1>12, <1>13, <2>2, <2>3, <2>10
       DEF BuildSteps, BuildInv
<1> QED
  BY <1>4, <1>14, <1>15

LEMMA SecondRoundSteps ==
  ASSUME AuthorityInv, NEW q \in Builds, pc[q] \in Round2, Reading,
         NEW result \in BOOLEAN, SecondRound(q, result),
         result => /\ pc[q] = "regen"
                   /\ generated[At(q)] = Generation(work[q].read[At(q)])
  PROVE  BuildSteps(q)
<1> USE DEF AuthorityInv, AuthorityTypes, WorldInv
<1>1. Forward /\ UNCHANGED <<src, cat, tool, generated, seen, now, edits, activated>>
  BY ReadingRests DEF Reading, World, inputs
<1>2. BuildInv(q) /\ work[q] \in Works
  BY DEF ProcessTypes
<1>3. /\ work[q].i \in DOMAIN Order /\ At(q) = Order[work[q].i] /\ At(q) \in Packages
      /\ Listed(q) = Order
  BY <1>2, AtHand DEF BuildInv
<1> DEFINE ok == [work[q].ok EXCEPT ![At(q)] = result]
<1>4. PICK next \in Recheck(q, ok, work[q].i) :
        Turns(q, next[1], Concluded(q, result, next[2]))
  BY SecondRoundTurns
<1>5. /\ next[1] \in {"recat", "verified"} /\ next[2] \in Nat
      /\ next[1] = "recat" =>
           /\ next[2] \in work[q].i + 1 .. Len(Order) /\ ok[Order[next[2]]]
           /\ \A j \in work[q].i + 1 .. Len(Order) : ok[Order[j]] => next[2] <= j
      /\ next[1] = "verified" =>
           \A j \in work[q].i + 1 .. Len(Order) : ~ok[Order[j]]
  BY <1>2, <1>3, <1>4, RecheckNext DEF Works
<1>6. /\ pc'[q] = next[1] /\ work'[q] = Concluded(q, result, next[2])
      /\ Turns(q, pc'[q], work'[q])
  BY <1>4 DEF Turns
<1>7. /\ work'[q].read = work[q].read /\ work'[q].tool = work[q].tool
      /\ work'[q].began = work[q].began /\ work'[q].outcome = work[q].outcome
      /\ work'[q].i = next[2] /\ work'[q].ok = ok
  BY <1>5, <1>6, ConcludedKeeps
<1>8. PICK e \in seen : e[2] >= work[q].began /\ SecondKnown(q, e[1])
  BY <1>2 DEF BuildInv, BetweenRounds
<1>9. work[q].ok[At(q)] /\ (result => Confirmed(e[1], At(q), work[q].read[At(q)]))
  <2>1. work[q].ok[At(q)]
    BY <1>3, <1>8 DEF SecondKnown
  <2>2. Suits(e[1], At(q), work[q].read[At(q)])
    BY <1>3, <1>8, <2>1 DEF SecondKnown
  <2> QED
    BY <1>3, <1>8, <2>1, <2>2 DEF SecondKnown, Suits, Confirmed
<1>10. \A p \in Packages : ok[p] => work[q].ok[p]
  BY <1>2, <1>9 DEF Works
<1>11. ok[At(q)] => result
  BY <1>2, <1>3 DEF Works
<1> HIDE DEF ok
<1>12. ReadStands(q)'
  BY <1>1, <1>2, <1>7, AcceptedStays DEF BuildInv, ReadStands
<1>13. Verified(q)'
  BY <1>2, <1>7 DEF BuildInv, Verified, Round2
<1>14. GoodKnown(q)'
  <2>1. ASSUME NEW p \in Packages, ok[p]
        PROVE  Known(q, p, work[q].read[p])
    BY <1>2, <1>10, <2>1 DEF BuildInv, GoodKnown, Round2
  <2> QED
    BY <1>7, <2>1, <1>1 DEF GoodKnown, Known, SourcesKnown, CatalogKnown,
         GenerationInput, Generation
<1>15. Place(q)'
  BY <1>1, <1>2, <1>3, <1>5, <1>6, <1>7, OrderType
     DEF BuildInv, Place, Round1, Round2
<1>16. FirstKnown(q)'
  BY <1>5, <1>6 DEF FirstKnown, Round1
<1>17. SecondKnown(q, e[1])'
  <2>1. tool' = work'[q].tool => e[1].tool = work'[q].tool
    BY <1>1, <1>7, <1>8 DEF SecondKnown
  <2>2. ASSUME NEW p \in Packages, ok[p]
        PROVE  Suits(e[1], p, work[q].read[p])'
    <3>1. Suits(e[1], p, work[q].read[p])
      BY <1>8, <1>10, <2>2 DEF SecondKnown
    <3> QED
      BY <1>1, <1>7, <3>1 DEF Suits, Generation, GenerationInput
  <2>3. ASSUME NEW j \in DOMAIN Order, ok[Order[j]],
               pc'[q] = "verified" \/ j < work'[q].i
        PROVE  Confirmed(e[1], Order[j], work[q].read[Order[j]])
    <3>1. j <= work[q].i
      BY <1>3, <1>5, <1>6, <1>7, <2>3, OrderType
    <3>2. CASE j = work[q].i
      BY <1>3, <1>9, <1>11, <2>3, <3>2
    <3>3. CASE j < work[q].i
      BY <1>8, <1>10, <2>3, <3>3, OrderType DEF SecondKnown
    <3> QED
      BY <1>3, <3>1, <3>2, <3>3, OrderType
  <2>4. /\ pc'[q] \in Round2 => ok[Order[work'[q].i]]
        /\ pc'[q] \notin {"resrc", "regen"}
    BY <1>5, <1>6, <1>7 DEF Round2
  <2> QED
    BY <1>7, <2>1, <2>2, <2>3, <2>4 DEF SecondKnown, Confirmed, Generation
<1>18. BetweenRounds(q)'
  BY <1>1, <1>7, <1>8, <1>17 DEF BetweenRounds
<1> QED
  BY <1>1, <1>6, <1>12, <1>13, <1>14, <1>15, <1>16, <1>18
     DEF BuildSteps, BuildInv

\* A comparison that agrees: what it adds to what the build knows is all that
\* is to be shown.
LEMMA AgreesOn ==
  ASSUME AuthorityInv, NEW q \in Builds, Reading,
         NEW label \in Round1 \cup Round2, pc[q] \in Round1 \cup Round2,
         pc[q] \in Round1 <=> label \in Round1,
         Turns(q, label, work[q]), FirstKnown(q)', BetweenRounds(q)'
  PROVE  BuildSteps(q)
<1> USE DEF AuthorityInv, AuthorityTypes, WorldInv
<1>1. Forward /\ UNCHANGED <<src, cat, tool, generated, seen, now, edits, activated>>
  BY ReadingRests DEF Reading, World, inputs
<1>2. pc'[q] = label /\ work'[q] = work[q] /\ Turns(q, pc'[q], work'[q]) /\ BuildInv(q)
  BY DEF Turns
<1>3. ReadStands(q)'
  BY <1>1, <1>2, AcceptedStays DEF BuildInv, ReadStands
<1>4. Place(q)'
  BY <1>1, <1>2 DEF BuildInv, Place
<1>5. GoodKnown(q)'
  BY <1>1, <1>2 DEF BuildInv, GoodKnown, Known, SourcesKnown, CatalogKnown,
       GenerationInput, Generation, Round1, Round2
<1>6. Verified(q)'
  BY <1>1, <1>2 DEF BuildInv, Verified, Round1, Round2
<1> QED
  BY <1>1, <1>2, <1>3, <1>4, <1>5, <1>6 DEF BuildSteps, BuildInv

LEMMA CatalogAgrees ==
  ASSUME AuthorityInv, NEW q \in Builds, CompareCatalog(q),
         <<cat[At(q)], Toolchain(q)>> = Generation(Bound(q)),
         Turns(q, After[pc[q]], work[q])
  PROVE  BuildSteps(q)
<1> USE DEF AuthorityInv, AuthorityTypes, WorldInv
<1> DEFINE p == At(q)
           s == work[q].read[p]
<1>1. /\ Reading /\ pc[q] \in {"cat", "recat"} /\ BuildInv(q)
      /\ UNCHANGED <<src, cat, tool, generated, seen, edits>>
  BY DEF CompareCatalog, Compare, Reading, World, inputs
<1>2. /\ work[q].i \in DOMAIN Order /\ p = Order[work[q].i] /\ p \in Packages
  BY <1>1, AtHand DEF BuildInv, Round1, Round2
<1>3. cat[p] = s.cat /\ work[q].tool = s.tool
  BY DEF Toolchain, Generation, Bound
<1>4. CASE pc[q] = "cat"
  <2>1. After[pc[q]] = "src"
    BY <1>4 DEF After
  <2>2. pc'[q] = "src" /\ work'[q] = work[q]
    BY <2>1 DEF Turns
  <2>3. FirstKnown(q)'
    BY <1>1, <1>2, <1>3, <1>4, <2>2 DEF BuildInv, FirstKnown, CatalogKnown,
         VersionsPast, Round1
  <2>4. BetweenRounds(q)'
    BY <2>2 DEF BetweenRounds, Round2
  <2> QED
    BY <1>1, <1>4, <2>1, <2>3, <2>4, AgreesOn DEF Round1, Round2
<1>5. CASE pc[q] = "recat"
  <2>1. After[pc[q]] = "resrc"
    BY <1>5 DEF After
  <2>2. pc'[q] = "resrc" /\ work'[q] = work[q]
    BY <2>1 DEF Turns
  <2>3. FirstKnown(q)'
    BY <2>2 DEF FirstKnown, Round1
  <2>4. PICK e \in seen : e[2] >= work[q].began /\ SecondKnown(q, e[1])
    BY <1>1, <1>5 DEF BuildInv, BetweenRounds, Round2
  <2>5. e[1].cat[p] = s.cat
    BY <1>2, <1>3, <1>5, <2>4 DEF SecondKnown, Suits, Round2
  <2>6. SecondKnown(q, e[1])'
    BY <1>1, <1>2, <1>5, <2>2, <2>4, <2>5 DEF SecondKnown, Suits, Confirmed,
         GenerationInput, Generation, Round2
  <2>7. BetweenRounds(q)'
    BY <1>1, <2>2, <2>4, <2>6 DEF BetweenRounds
  <2> QED
    BY <1>1, <1>5, <2>1, <2>3, <2>7, AgreesOn DEF Round1, Round2
<1> QED
  BY <1>1, <1>4, <1>5

LEMMA SourcesAgree ==
  ASSUME AuthorityInv, NEW q \in Builds, CompareSources(q),
         src[At(q)] = Bound(q).src, Turns(q, After[pc[q]], work[q])
  PROVE  BuildSteps(q)
<1> USE DEF AuthorityInv, AuthorityTypes, WorldInv
<1> DEFINE p == At(q)
           s == work[q].read[p]
<1>1. /\ Reading /\ pc[q] \in {"src", "resrc"} /\ BuildInv(q)
      /\ UNCHANGED <<src, cat, tool, generated, seen, edits>>
  BY DEF CompareSources, Compare, Reading, World, inputs
<1>2. /\ work[q].i \in DOMAIN Order /\ p = Order[work[q].i] /\ p \in Packages
  BY <1>1, AtHand DEF BuildInv, Round1, Round2
<1>3. src[p] = s.src
  BY DEF Bound
<1>4. CASE pc[q] = "src"
  <2>1. After[pc[q]] = "gen"
    BY <1>4 DEF After
  <2>2. pc'[q] = "gen" /\ work'[q] = work[q]
    BY <2>1 DEF Turns
  <2>3. FirstKnown(q)'
    BY <1>1, <1>2, <1>3, <1>4, <2>2 DEF BuildInv, FirstKnown, CatalogKnown,
         SourcesKnown, VersionsPast, Round1
  <2>4. BetweenRounds(q)'
    BY <2>2 DEF BetweenRounds, Round2
  <2> QED
    BY <1>1, <1>4, <2>1, <2>3, <2>4, AgreesOn DEF Round1, Round2
<1>5. CASE pc[q] = "resrc"
  <2>1. After[pc[q]] = "regen"
    BY <1>5 DEF After
  <2>2. pc'[q] = "regen" /\ work'[q] = work[q]
    BY <2>1 DEF Turns
  <2>3. FirstKnown(q)'
    BY <2>2 DEF FirstKnown, Round1
  <2>4. PICK e \in seen : e[2] >= work[q].began /\ SecondKnown(q, e[1])
    BY <1>1, <1>5 DEF BuildInv, BetweenRounds, Round2
  <2>5. e[1].src[p] = s.src /\ e[1].cat[p] = s.cat
    BY <1>2, <1>3, <1>5, <2>4 DEF SecondKnown, Suits, Round2
  <2>6. SecondKnown(q, e[1])'
    BY <1>1, <1>2, <1>5, <2>2, <2>4, <2>5 DEF SecondKnown, Suits, Confirmed,
         GenerationInput, Generation, Round2
  <2>7. BetweenRounds(q)'
    BY <1>1, <2>2, <2>4, <2>6 DEF BetweenRounds
  <2> QED
    BY <1>1, <1>5, <2>1, <2>3, <2>7, AgreesOn DEF Round1, Round2
<1> QED
  BY <1>1, <1>4, <1>5

LEMMA SelectAgrees ==
  ASSUME AuthorityInv, NEW q \in Builds, Select(q),
         selector[At(q)] # None, Turns(q, "cat", Selected(q))
  PROVE  BuildSteps(q)
<1> USE DEF AuthorityInv, AuthorityTypes, WorldInv
<1> DEFINE p == At(q)
           s == selector[p]
<1>1. /\ Forward /\ pc[q] = "select" /\ BuildInv(q) /\ work[q] \in Works
      /\ UNCHANGED <<src, cat, tool, generated, seen, now, edits, activated>>
  BY ReadingRests DEF Select, Reading, World, inputs, ProcessTypes
<1>2. /\ work[q].i \in DOMAIN Order /\ p = Order[work[q].i] /\ p \in Packages
  BY <1>1, AtHand DEF BuildInv
<1>3. pc'[q] = "cat" /\ work'[q] = Selected(q) /\ Turns(q, pc'[q], work'[q])
  BY DEF Turns
<1>4. /\ work'[q].read = [work[q].read EXCEPT ![p] = s]
      /\ work'[q].ok = work[q].ok /\ work'[q].i = work[q].i
      /\ work'[q].tool = work[q].tool /\ work'[q].began = work[q].began
      /\ work'[q].outcome = work[q].outcome
  BY <1>1, <1>3 DEF Selected, Works
<1>5. s \in Sets /\ \E t \in Runtimes : Accepted(p, s, t)
  BY <1>2 DEF WorldTypes, SelectorsStand
<1>6. /\ work'[q].read[p] = s
      /\ \A r \in Packages \ {p} : work'[q].read[r] = work[q].read[r]
  BY <1>1, <1>2, <1>4 DEF Works
<1>7. ReadStands(q)'
  BY <1>1, <1>5, <1>6 DEF BuildInv, ReadStands, Accepted
<1>8. Place(q)'
  BY <1>1, <1>3, <1>4 DEF BuildInv, Place, Round1
<1>9. FirstKnown(q)'
  BY <1>1, <1>2, <1>3, <1>4, <1>5, <1>6 DEF BuildInv, FirstKnown, Round1
<1>10. ~work[q].ok[p]
  BY <1>1, <1>2, OrderType DEF BuildInv, FirstKnown
<1>11. GoodKnown(q)'
  <2>1. ASSUME NEW r \in Packages, work[q].ok[r]
        PROVE  /\ Known(q, r, work[q].read[r]) /\ work'[q].read[r] = work[q].read[r]
    BY <1>1, <1>6, <1>10, <2>1 DEF BuildInv, GoodKnown
  <2> QED
    BY <1>1, <1>4, <2>1 DEF GoodKnown, Known, SourcesKnown, CatalogKnown,
         GenerationInput, Generation
<1>12. BetweenRounds(q)' /\ Verified(q)'
  BY <1>1, <1>3, <1>4 DEF BuildInv, BetweenRounds, Verified, Round2
<1> QED
  BY <1>1, <1>3, <1>7, <1>8, <1>9, <1>11, <1>12 DEF BuildSteps, BuildInv

LEMMA BuildCompares ==
  ASSUME AuthorityInv, NEW q \in Builds, Compares(q)
  PROVE  BuildSteps(q)
<1> USE DEF AuthorityInv, AuthorityTypes, WorldInv
<1>1. Reading
  BY ComparesRests
<1>2. ASSUME Verdict(q, FALSE),
             pc[q] \in {"select"} \cup Round1 \cup Round2
      PROVE  BuildSteps(q)
  <2>1. CASE pc[q] \in Round2
    BY <1>1, <1>2, <2>1, SecondRoundSteps DEF Verdict, Round2
  <2>2. CASE pc[q] \notin Round2
    BY <1>1, <1>2, <2>2, FirstRoundSteps DEF Verdict, Round2
  <2> QED
    BY <2>1, <2>2
<1>3. CASE Select(q)
  <2>1. pc[q] = "select"
    BY <1>3 DEF Select
  <2>2. CASE FirstRound(q, FALSE)
    BY <1>1, <2>1, <2>2, FirstRoundSteps
  <2> QED
    BY <1>3, <2>2, SelectTurns, SelectAgrees
<1>4. CASE CompareCatalog(q)
  <2> DEFINE same == <<cat[At(q)], Toolchain(q)>> = Generation(Bound(q))
  <2>1. same \in BOOLEAN /\ Compare(q, same) /\ pc[q] \in {"cat", "recat"}
    BY <1>4 DEF CompareCatalog
  <2>2. CASE same /\ Turns(q, After[pc[q]], work[q])
    BY <1>4, <2>2, CatalogAgrees
  <2>3. CASE Verdict(q, FALSE)
    BY <1>2, <2>1, <2>3 DEF Round1, Round2
  <2> QED
    BY <2>1, <2>2, <2>3, CompareTurns
<1>5. CASE CompareSources(q)
  <2> DEFINE same == src[At(q)] = Bound(q).src
  <2>1. same \in BOOLEAN /\ Compare(q, same) /\ pc[q] \in {"src", "resrc"}
    BY <1>5 DEF CompareSources
  <2>2. CASE same /\ Turns(q, After[pc[q]], work[q])
    BY <1>5, <2>2, SourcesAgree
  <2>3. CASE Verdict(q, FALSE)
    BY <1>2, <2>1, <2>3 DEF Round1, Round2
  <2> QED
    BY <2>1, <2>2, <2>3, CompareTurns
<1>6. CASE CompareGenerated(q)
  <2> DEFINE same == generated[At(q)] = Generation(Bound(q))
  <2>1. same \in BOOLEAN /\ Verdict(q, same) /\ pc[q] \in {"gen", "regen"}
    BY <1>6 DEF CompareGenerated
  <2>2. CASE pc[q] = "regen"
    <3>1. SecondRound(q, same)
      BY <2>1, <2>2 DEF Verdict
    <3> QED
      BY <1>1, <2>1, <2>2, <3>1, SecondRoundSteps DEF Round2, Bound
  <2>3. CASE pc[q] = "gen"
    <3>1. FirstRound(q, same)
      BY <2>1, <2>3 DEF Verdict
    <3>2. BuildInv(q) /\ At(q) = Order[work[q].i]
      BY <2>3, AtHand DEF BuildInv, Round1
    <3>3. same => Known(q, At(q), work[q].read[At(q)])
      BY <2>3, <3>2 DEF BuildInv, FirstKnown, Known, Bound
    <3> QED
      BY <1>1, <2>1, <2>3, <3>1, <3>3, FirstRoundSteps DEF Round1
  <2> QED
    BY <2>1, <2>2, <2>3
<1> QED
  BY <1>3, <1>4, <1>5, <1>6 DEF Compares

----------------------------------------------------------------------------
(* The selectors and the reuse records.                                     *)

LEMMA CompleteStays ==
  ASSUME NEW p \in Packages, NEW s, Complete(p, s), WorldMoves
  PROVE  Complete(p, s)'
BY DEF Complete, WorldMoves

LEMMA StandStays ==
  ASSUME SelectorsStand, RecordsStand, WorldMoves, UNCHANGED <<selector, record>>
  PROVE  SelectorsStand' /\ RecordsStand'
<1>1. ASSUME NEW p \in Packages, selector[p] # None
      PROVE  /\ Complete(p, selector[p])'
             /\ \E t \in Runtimes : Accepted(p, selector[p], t)'
  <2>1. PICK s : s = selector[p]
    OBVIOUS
  <2>2. Complete(p, s)' /\ \E t \in Runtimes : Accepted(p, s, t)'
    BY <1>1, <2>1, CompleteStays, AcceptedStays DEF SelectorsStand, WorldMoves
  <2> QED
    BY <2>1, <2>2 DEF Complete, Accepted
<1>2. SelectorsStand'
  BY <1>1 DEF SelectorsStand
<1>3. RecordsStand'
  BY DEF RecordsStand, Accepted, WorldMoves
<1> QED
  BY <1>2, <1>3

\* A selector is renamed only over a set whose objects are all in place, by a
\* check whose analysis took its sources.
LEMMA CommitStands ==
  ASSUME AuthorityInv, NEW q \in Checks, Commit(q), WorldMoves
  PROVE  SelectorsStand' /\ RecordsStand'
<1> USE DEF AuthorityInv, AuthorityTypes, WorldInv
<1> DEFINE p == Home[q]
           s == work[q].set
           t == work[q].runtime
<1>1. p \in Packages /\ pc[q] = "commit" /\ CheckInv(q) /\ UNCHANGED record
  BY AuthorityConstants DEF Commit
<1>2. CASE UNCHANGED selector
  BY <1>1, <1>2, StandStays
<1>3. CASE /\ selector' = [selector EXCEPT ![p] = s]
           /\ activated' = activated \cup {<<p, s, t>>}
  <2>1. Complete(p, s)
    <3>1. Installed(q, "authority") /\ Installed(q, "receipt") /\ Installed(q, "set")
      BY <1>1 DEF CheckInv, Written, Committing
    <3> QED
      BY <3>1 DEF Installed, Complete, Kinds
  <2>2. <<s.src, t>> \notin Rejected /\ t \in Runtimes
    BY <1>1 DEF CheckInv, Analysed, Committing
  <2>3. PICK u, v : u = s /\ v = t
    OBVIOUS
  <2>4. Complete(p, u)' /\ Accepted(p, u, v)'
    BY <1>1, <1>3, <2>1, <2>2, <2>3, CompleteStays DEF Accepted
  <2>5. ASSUME NEW r \in Packages, r # p, selector[r] # None
        PROVE  /\ Complete(r, selector[r])'
               /\ \E x \in Runtimes : Accepted(r, selector[r], x)'
    <3>1. PICK w : w = selector[r]
      OBVIOUS
    <3>2. Complete(r, w)' /\ \E x \in Runtimes : Accepted(r, w, x)'
      BY <2>5, <3>1, CompleteStays, AcceptedStays DEF SelectorsStand,
           WorldMoves
    <3>3. selector'[r] = w
      BY <1>3, <2>5, <3>1 DEF WorldTypes
    <3> QED
      BY <3>2, <3>3 DEF Complete, Accepted
  <2>6. selector'[p] = u /\ \A r \in Packages : r # p => selector'[r] = selector[r]
    BY <1>1, <1>3, <2>3 DEF WorldTypes
  <2>7. SelectorsStand'
    BY <2>2, <2>3, <2>4, <2>5, <2>6 DEF SelectorsStand, Complete, Accepted
  <2>8. RecordsStand'
    BY <1>1 DEF RecordsStand, Accepted, WorldMoves
  <2> QED
    BY <2>7, <2>8
<1> QED
  BY <1>2, <1>3 DEF Commit

LEMMA WriteRecordStands ==
  ASSUME AuthorityInv, NEW q \in Checks, WriteRecord(q), WorldMoves
  PROVE  SelectorsStand' /\ RecordsStand'
<1> USE DEF AuthorityInv, AuthorityTypes, WorldInv
<1>1. /\ Home[q] \in Packages /\ CheckInv(q) /\ pc[q] = "record"
      /\ UNCHANGED <<selector, activated>>
      /\ record' = [record EXCEPT ![Home[q]] = <<work[q].set, work[q].runtime>>]
  BY AuthorityConstants DEF WriteRecord
<1>2. Accepted(Home[q], work[q].set, work[q].runtime)
  BY <1>1 DEF CheckInv, Analysed, Accepted, Committing
<1>3. RecordsStand'
  BY <1>1, <1>2 DEF RecordsStand, Accepted, WorldTypes
<1>4. SelectorsStand'
  BY <1>1 DEF SelectorsStand, Accepted, Complete, WorldMoves
<1> QED
  BY <1>3, <1>4

----------------------------------------------------------------------------
(* The invariant.                                                           *)

\* A step is taken by the world, by one check or by one build.
LEMMA NextCases ==
  ASSUME AuthorityInv, Next
  PROVE  \/ Forward /\ UNCHANGED <<pc, work>> /\ UNCHANGED <<selector, record>>
         \/ \E q \in Checks : CheckSteps(q) /\ UNCHANGED <<selector, record>>
         \/ \E q \in Checks : CheckSteps(q) /\ (Commit(q) \/ WriteRecord(q))
         \/ \E q \in Builds : BuildSteps(q) /\ UNCHANGED <<selector, record>>
<1> USE DEF AuthorityInv, AuthorityTypes, WorldInv
<1> DEFINE Goal ==
       \/ Forward /\ UNCHANGED <<pc, work>> /\ UNCHANGED <<selector, record>>
       \/ \E q \in Checks : CheckSteps(q) /\ UNCHANGED <<selector, record>>
       \/ \E q \in Checks : CheckSteps(q) /\ (Commit(q) \/ WriteRecord(q))
       \/ \E q \in Builds : BuildSteps(q) /\ UNCHANGED <<selector, record>>
<1> SUFFICES Goal
  OBVIOUS
<1>1. CASE \E p \in Packages : EditSources(p) \/ EditCatalog(p) \/ Regenerate(p)
  <2>1. PICK p \in Packages : EditSources(p) \/ EditCatalog(p) \/ Regenerate(p)
    BY <1>1
  <2>2. Forward
    BY <2>1, EditSourcesForward, EditCatalogForward, RegenerationForward
       DEF Regenerate, Witness
  <2>3. UNCHANGED <<pc, work, selector, record>>
    BY <2>1 DEF EditSources, EditCatalog, Regenerate, store
  <2> QED
    BY <2>2, <2>3
<1>2. CASE Upgrade \/ Tick
  <2>1. Forward
    BY <1>2, UpgradeForward, TickForward
  <2>2. UNCHANGED <<pc, work, selector, record>>
    BY <1>2 DEF Upgrade, Tick, store
  <2> QED
    BY <2>1, <2>2
<1> HIDE DEF Goal
<1>3. CASE \E q \in Checks, t \in Runtimes : StartCheck(q, t)
  <2>1. PICK q \in Checks, t \in Runtimes : StartCheck(q, t)
    BY <1>3
  <2>2. CheckSteps(q)
    BY <2>1, StartCheckSteps
  <2>3. UNCHANGED <<selector, record>>
    BY <2>1 DEF StartCheck, Start, store
  <2> QED
    BY <2>1, <2>2, <2>3 DEF Goal
<1>4. ASSUME NEW q \in Procs, Compares(q)
      PROVE  Goal
  <2>1. UNCHANGED <<selector, record>>
    BY <1>4, ComparesRests DEF Reading, store
  <2>2. CASE q \in Checks
    BY <1>4, <2>1, <2>2, CheckCompares DEF Goal
  <2>3. CASE q \in Builds
    BY <1>4, <2>1, <2>3, BuildCompares DEF Goal
  <2> QED
    BY <2>2, <2>3
<1>5. ASSUME NEW q \in Procs, StartBuild(q) \/ EndBuild(q)
      PROVE  Goal
  <2>1. q \in Builds /\ BuildSteps(q)
    BY <1>5, StartBuildSteps, EndBuildSteps DEF StartBuild, EndBuild
  <2>2. UNCHANGED <<selector, record>>
    BY <1>5 DEF StartBuild, Start, EndBuild, Reading, store
  <2> QED
    BY <2>1, <2>2 DEF Goal
<1>6. ASSUME NEW q \in Procs,
             \/ Reuse(q) \/ Ensure(q) \/ VerifyCatalog(q) \/ ReadSources(q)
             \/ ReadToolchain(q) \/ Analyze(q) \/ LinkObject(q) \/ UnlinkTemporary(q)
      PROVE  Goal
  <2>1. q \in Checks
    BY <1>6 DEF Reuse, Ensure, VerifyCatalog, ReadSources, ReadToolchain,
         Analyze, LinkObject, UnlinkTemporary
  <2>2. CheckSteps(q)
    BY <1>6, <2>1, ReuseSteps, EnsureSteps, VerifyCatalogSteps,
       ReadSourcesSteps, ReadToolchainSteps, AnalyzeSteps, LinkObjectSteps,
       UnlinkTemporarySteps
  <2>3. UNCHANGED <<selector, record>>
    BY <1>6 DEF Reuse, Ensure, VerifyCatalog, ReadSources, ReadToolchain,
         Analyze, LinkObject, UnlinkTemporary, Reading, store
  <2> QED
    BY <2>1, <2>2, <2>3 DEF Goal
<1>7. ASSUME NEW q \in Procs,
             \/ FingerprintInputs(q) \/ FingerprintGenerated(q)
             \/ FingerprintSources(q) \/ Kill(q)
      PROVE  Goal
  <2>1. q \in Checks
    BY <1>7 DEF FingerprintInputs, FingerprintGenerated, FingerprintSources,
         Fingerprint, Kill
  <2>2. CheckSteps(q)
    BY <1>7, <2>1, FingerprintInputsSteps, FingerprintGeneratedSteps,
       FingerprintSourcesSteps, KillSteps
  <2>3. UNCHANGED <<selector, record>>
    BY <1>7 DEF FingerprintInputs, FingerprintGenerated, FingerprintSources,
         Fingerprint, Kill, Reading, store
  <2> QED
    BY <2>1, <2>2, <2>3 DEF Goal
<1>8. ASSUME NEW q \in Procs, Commit(q) \/ WriteRecord(q)
      PROVE  Goal
  <2>1. q \in Checks
    BY <1>8 DEF Commit, WriteRecord
  <2> QED
    BY <1>8, <2>1, CommitSteps, WriteRecordSteps DEF Goal
<1>9. CASE \E q \in Procs : Step(q) \/ StartBuild(q) \/ Kill(q)
  BY <1>9, <1>4, <1>5, <1>6, <1>7, <1>8 DEF Step, Compares
<1> QED
  BY <1>1, <1>2, <1>3, <1>9 DEF Next, Goal

LEMMA AuthorityInit == Init => AuthorityInv
<1> SUFFICES ASSUME Init PROVE AuthorityInv
  OBVIOUS
<1>1. AuthorityTypes
  BY InitTypes
<1>2. VersionsPast /\ MomentSeen /\ RecordsStand
  BY DEF Init, VersionsPast, MomentSeen, RecordsStand
<1>3. SelectorsStand
  <2>1. PICK t \in Runtimes : <<0, t>> \notin Rejected
    BY AuthorityConstants
  <2>2. ASSUME NEW p \in Packages
        PROVE  /\ selector[p] = Blank /\ Complete(p, Blank)
               /\ <<p, Blank, t>> \in activated
    BY <2>1 DEF Init, Complete
  <2>3. Blank.src = 0
    BY DEF Blank
  <2> QED
    BY <2>1, <2>2, <2>3 DEF SelectorsStand, Accepted
<1>4. ASSUME NEW q \in Procs
      PROVE  /\ pc[q] = "idle" /\ work[q] = Idle /\ now = 0 /\ edits = 0
  BY DEF Init
<1>5. ASSUME NEW q \in Checks
      PROVE  CheckInv(q)
  <2>1. Began(q)
    BY <1>4 DEF Began, Idle, Blank
  <2>2. Written(q) /\ Analysed(q) /\ Named(q) /\ Fingerprinted(q)
    BY <1>4 DEF Written, Analysed, Named, Fingerprinted, Idle, Fingerprinting,
         Committing, Kinds, Verifying, Round1, Round2
  <2> QED
    BY <2>1, <2>2 DEF CheckInv
<1>6. ASSUME NEW q \in Builds
      PROVE  BuildInv(q)
  <2>1. ReadStands(q) /\ Verified(q)
    BY <1>4 DEF ReadStands, Verified, Idle
  <2>2. Place(q)
    BY <1>4 DEF Place, Idle, Round1, Round2
  <2>3. FirstKnown(q) /\ GoodKnown(q) /\ BetweenRounds(q)
    BY <1>4 DEF FirstKnown, GoodKnown, BetweenRounds, Round1, Round2
  <2> QED
    BY <2>1, <2>2, <2>3 DEF BuildInv
<1> QED
  BY <1>1, <1>2, <1>3, <1>5, <1>6 DEF AuthorityInv, WorldInv

LEMMA AuthorityNext == AuthorityInv /\ [Next]_vars => AuthorityInv'
<1> SUFFICES ASSUME AuthorityInv, [Next]_vars PROVE AuthorityInv'
  OBVIOUS
<1> USE DEF AuthorityInv, AuthorityTypes, WorldInv
\* The processes that rest keep what they know.
<1>1. ASSUME Forward, NEW q \in Procs, pc'[q] = pc[q], work'[q] = work[q]
      PROVE  (q \in Checks => CheckInv(q)') /\ (q \in Builds => BuildInv(q)')
  BY <1>1, CheckRests, BuildRests
<1>2. ASSUME Forward, UNCHANGED <<pc, work>>, UNCHANGED <<selector, record>>
      PROVE  AuthorityInv'
  <2>1. SelectorsStand' /\ RecordsStand'
    BY <1>2, StandStays DEF Forward
  <2>2. ProcessTypes'
    BY <1>2 DEF ProcessTypes
  <2>3. /\ \A q \in Checks : CheckInv(q)'
        /\ \A q \in Builds : BuildInv(q)'
    BY <1>1, <1>2
  <2> QED
    BY <1>2, <2>1, <2>2, <2>3 DEF Forward
<1>3. ASSUME NEW q \in Checks, CheckSteps(q), SelectorsStand', RecordsStand'
      PROVE  AuthorityInv'
  <2>1. Forward /\ ProcessTypes' /\ CheckInv(q)'
    BY <1>3 DEF CheckSteps, Turns
  <2>2. ASSUME NEW r \in Procs, r # q
        PROVE  (r \in Checks => CheckInv(r)') /\ (r \in Builds => BuildInv(r)')
    BY <1>1, <1>3, <2>1, <2>2 DEF CheckSteps, Turns
  <2>3. q \notin Builds
    BY AuthorityConstants
  <2> QED
    BY <1>3, <2>1, <2>2, <2>3 DEF Forward
<1>4. ASSUME NEW q \in Builds, BuildSteps(q), SelectorsStand', RecordsStand'
      PROVE  AuthorityInv'
  <2>1. Forward /\ ProcessTypes' /\ BuildInv(q)'
    BY <1>4 DEF BuildSteps, Turns
  <2>2. ASSUME NEW r \in Procs, r # q
        PROVE  (r \in Checks => CheckInv(r)') /\ (r \in Builds => BuildInv(r)')
    BY <1>1, <1>4, <2>1, <2>2 DEF BuildSteps, Turns
  <2>3. q \notin Checks
    BY AuthorityConstants
  <2> QED
    BY <1>4, <2>1, <2>2, <2>3 DEF Forward
<1>5. CASE UNCHANGED vars
  <2>1. Forward /\ UNCHANGED <<pc, work>> /\ UNCHANGED <<selector, record>>
    BY <1>5, StutterRests DEF vars, store
  <2> QED
    BY <1>2, <2>1
<1>6. CASE Next
  <2>1. CASE Forward /\ UNCHANGED <<pc, work>> /\ UNCHANGED <<selector, record>>
    BY <1>2, <2>1
  <2>2. CASE \E q \in Checks : CheckSteps(q) /\ UNCHANGED <<selector, record>>
    <3>1. PICK q \in Checks : CheckSteps(q) /\ UNCHANGED <<selector, record>>
      BY <2>2
    <3>2. SelectorsStand' /\ RecordsStand'
      BY <3>1, StandStays DEF CheckSteps, Forward
    <3> QED
      BY <1>3, <3>1, <3>2
  <2>3. CASE \E q \in Checks : CheckSteps(q) /\ (Commit(q) \/ WriteRecord(q))
    <3>1. PICK q \in Checks : CheckSteps(q) /\ (Commit(q) \/ WriteRecord(q))
      BY <2>3
    <3>2. SelectorsStand' /\ RecordsStand'
      BY <3>1, CommitStands, WriteRecordStands DEF CheckSteps, Forward
    <3> QED
      BY <1>3, <3>1, <3>2
  <2>4. CASE \E q \in Builds : BuildSteps(q) /\ UNCHANGED <<selector, record>>
    <3>1. PICK q \in Builds : BuildSteps(q) /\ UNCHANGED <<selector, record>>
      BY <2>4
    <3>2. SelectorsStand' /\ RecordsStand'
      BY <3>1, StandStays DEF BuildSteps, Forward
    <3> QED
      BY <1>4, <3>1, <3>2
  <2> QED
    BY <1>6, <2>1, <2>2, <2>3, <2>4, NextCases
<1> QED
  BY <1>5, <1>6

\* The invariant holds of every behaviour: publications, reuse, builds and
\* edits beside one another (proof.ts, check-receipt.ts).
THEOREM AuthorityHolds == Spec => []AuthorityInv
BY AuthorityInit, AuthorityNext, PTL DEF Spec

----------------------------------------------------------------------------
\* Whatever a selector names can be read, after any number of publications
\* by any number of processes, each killed at any step.
THEOREM SelectorsComplete == Spec => []SelectedComplete
<1>1. AuthorityInv => SelectedComplete
  BY DEF AuthorityInv, WorldInv, SelectorsStand, SelectedComplete
<1> QED
  BY <1>1, AuthorityHolds, PTL

\* The inputs of a set that is committed were true together at one moment
\* since its fingerprint began, whoever edits while they are read.
THEOREM OneMomentCommits == Spec => CommitsOneMoment
<1> DEFINE Committed ==
      \A q \in Checks :
        pc[q] = "commit" /\ pc'[q] = "record" =>
          \E e \in seen : /\ Binds(work[q].set, e[1], Home[q])
                         /\ e[1].generated[Home[q]] = Generation(work[q].set)
                         /\ e[2] >= work[q].began
<1>1. AuthorityInv => Committed
  BY DEF AuthorityInv, CheckInv, Fingerprinted, WasMoment, Committing
<1>2. AuthorityInv /\ [Next]_vars => [Committed]_vars
  BY <1>1
<1>3. Spec => [][Committed]_vars
  BY <1>2, AuthorityHolds, PTL DEF Spec
<1> QED
  BY <1>3, Zenon DEF CommitsOneMoment

\* A build that verified every package saw one workspace that existed since
\* it started, though it compared them one after the other.
THEOREM SessionsSeeOneMoment == Spec => []SessionSeesOneMoment
<1>1. AuthorityInv => SessionSeesOneMoment
  BY DEF AuthorityInv, BuildInv, Verified, SessionSeesOneMoment
<1> QED
  BY <1>1, AuthorityHolds, PTL

\* What a build verifies was accepted by an analysis, and what a check
\* reuses by one on its own runtime.
THEOREM AcceptedAuthorized == Spec => []AcceptedWasAuthorized
<1>1. AuthorityInv => ReusedWasAuthorized
  BY DEF AuthorityInv, CheckInv, Named, Accepted, ReusedWasAuthorized
<1>2. ASSUME AuthorityInv, NEW q \in Builds, work[q].outcome = "verified",
             NEW p \in Packages
      PROVE  \E t \in Runtimes : Accepted(p, work[q].read[p], t)
  <2>1. work[q].read[p] # None
    BY <1>2 DEF AuthorityInv, BuildInv, Verified
  <2> QED
    BY <1>2, <2>1 DEF AuthorityInv, BuildInv, ReadStands
<1>3. AuthorityInv => BuildsAcceptedSources
  BY <1>2 DEF BuildsAcceptedSources, Accepted
<1>4. AuthorityInv => AcceptedWasAuthorized
  BY <1>1, <1>3 DEF AcceptedWasAuthorized
<1> QED
  BY <1>4, AuthorityHolds, PTL

=============================================================================
