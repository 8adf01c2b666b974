----------------------------- MODULE ClientProofs -----------------------------
(***************************************************************************)
(* The safety of a client's two connections: the screens it is attached to *)
(* (HubSafe) and its control connection (EventsSafe), for any number of    *)
(* clients, rows, requests and broken connections.                         *)
(***************************************************************************)
EXTENDS MCClient, TLAPS

(***************************************************************************)
(* The attach hub.                                                         *)
(***************************************************************************)

\* Every change of the screen is announced once: generation and content_seq go
\* together, up to the one change that is not announced yet.
Announced == seq = IF unnotified THEN gen + 1 ELSE gen

\* What the pump has seen of the wake it watches.
PumpSeen ==
  /\ psource <= source
  /\ psource = source /\ ppc # "none" =>
       /\ pgen <= gen /\ psig <= seq
       /\ ppc # "observe" => pgen <= psig
  /\ ppc # "broadcast" => frame = NoFrame

\* A client that is being seeded holds the lock; what it was seeded with is the
\* screen at its sample.
Seeded(c) ==
  /\ seed[c].source <= source
  /\ cpc[c] \in {"sample", "recheck"} => lock = c /\ seed[c].gen <= gen
  /\ cpc[c] = "recheck" => seed[c].source = source
  /\ cpc[c] \in {"recheck", "seeded"} /\ seed[c].source = source =>
       /\ seed[c].gen <= gen /\ seed[c].gen <= seed[c].seq /\ seed[c].seq <= seq
       /\ seed[c].seq = seq => view[c] = screen
  /\ c \in sinks <=> cpc[c] \in {"started", "joined"}
  /\ attaches[c] = 0 => cpc[c] = "away"

\* The client's view under the frame that is on its way.
Shown(c) == [r \in Rows |-> IF r \in DOMAIN frame THEN frame[r] ELSE view[c][r]]

\* A client that is alone has the pump, and the baseline, for itself.
Lone(c) ==
  Alone(c) =>
    /\ cpc[c] \in {"sample", "recheck", "seeded"} => ppc = "none" /\ base = NoBase
    /\ c \in sinks /\ base # NoBase =>
         psig <= seq /\ (psig = seq => base = screen) /\ Shown(c) = base
    /\ c \in sinks /\ base = NoBase /\ psource = source =>
         ppc # "broadcast" /\ psig <= seq /\ (psig = seq => view[c] = screen)

Untouched == (\A c \in Clients : attaches[c] = 0) => ppc = "none" /\ base = NoBase

\* The invariant the hub's induction carries.
HubIInv ==
  /\ TypeOK /\ Announced /\ PumpSeen /\ PumpServesSinks /\ Untouched
  /\ \A c \in Clients : Seeded(c) /\ Lone(c)

\* Nobody is attached and nothing was sent: it holds.
LEMMA HubInitial == Init => HubIInv
<1> SUFFICES ASSUME Init PROVE HubIInv
  OBVIOUS
<1> USE HubAssumption DEF Init
<1>1. TypeOK
  <2>1. NoFrame \in Frame
    BY DEF NoFrame, Frame
  <2>2. [gen |-> 0, seq |-> 0, source |-> 0] \in Sample
    BY DEF Sample
  <2>3. unnotified \in BOOLEAN
    BY Zenon
  <2>4. base \in [Rows -> Contents] \cup {NoBase}
    OBVIOUS
  <2> QED BY <2>1, <2>2, <2>3, <2>4 DEF TypeOK
<1>2. Announced /\ PumpSeen /\ PumpServesSinks /\ Untouched
  BY DEF Announced, PumpSeen, PumpServesSinks, Untouched, NoSig
<1>3. \A c \in Clients : Seeded(c) /\ Lone(c)
  BY DEF Seeded, Lone, Alone
<1> QED BY <1>1, <1>2, <1>3 DEF HubIInv

\* A screen is never taken for no baseline.
LEMMA ScreensAreBases ==
  ASSUME NEW s \in [Rows -> Contents]
  PROVE  s # NoBase
BY HubAssumption DEF NoBase

\* The types of the parts, for the steps below.
LEMMA HubTypes ==
  ASSUME TypeOK
  PROVE  /\ seq \in Nat /\ gen \in Nat /\ source \in Nat /\ psource \in Nat /\ pgen \in Nat
         /\ psig \in Int /\ screen \in [Rows -> Contents] /\ screen # NoBase
         /\ \A c \in Clients : /\ seed[c] \in Sample /\ seed[c].gen \in Nat /\ seed[c].seq \in Nat
                               /\ seed[c].source \in Nat /\ view[c] \in [Rows -> Contents]
                               /\ attaches[c] \in Nat
BY HubAssumption, ScreensAreBases DEF TypeOK, Sample, NoSig

\* The output thread: a change of the screen, its notice, a new session.
LEMMA HubOutput ==
  ASSUME HubIInv, (\E r \in Rows, v \in Contents : Feed(r, v)) \/ Notify \/ Replace
  PROVE  HubIInv'
<1>0. TypeOK
  BY DEF HubIInv
<1>1. ASSUME NEW r \in Rows, NEW v \in Contents, Feed(r, v) PROVE HubIInv'
  <2>1. TypeOK'
    BY <1>0, <1>1, HubAssumption DEF Feed, TypeOK, clientVars, pumpVars
  <2>2. Announced' /\ PumpSeen' /\ PumpServesSinks' /\ Untouched'
    BY <1>0, <1>1, HubTypes DEF HubIInv, Feed, Announced, PumpSeen, PumpServesSinks, Untouched,
       clientVars, pumpVars
  <2>3. ASSUME NEW c \in Clients PROVE Seeded(c)' /\ Lone(c)'
    <3>1. Seeded(c)'
      BY <1>0, <1>1, HubTypes DEF HubIInv, Feed, Seeded, clientVars, pumpVars
    <3>2. Lone(c)'
      BY <1>0, <1>1, HubTypes DEF HubIInv, Feed, Lone, Alone, Shown, clientVars, pumpVars
    <3> QED BY <3>1, <3>2
  <2> QED BY <2>1, <2>2, <2>3 DEF HubIInv
<1>2. CASE Notify
  <2>0. gen + 1 = seq /\ gen' = gen + 1
    BY <1>0, <1>2, HubTypes DEF HubIInv, Notify, Announced
  <2>1. TypeOK'
    BY <1>0, <1>2, <2>0 DEF Notify, TypeOK, clientVars, pumpVars
  <2>2. Announced' /\ PumpSeen' /\ PumpServesSinks' /\ Untouched'
    BY <1>0, <1>2, <2>0, HubTypes DEF HubIInv, Notify, Announced, PumpSeen, PumpServesSinks,
       Untouched, clientVars, pumpVars
  <2>3. ASSUME NEW c \in Clients PROVE Seeded(c)' /\ Lone(c)'
    <3>1. Seeded(c)'
      BY <1>0, <1>2, <2>0, HubTypes DEF HubIInv, Notify, Seeded, clientVars, pumpVars
    <3>2. Lone(c)'
      BY <1>0, <1>2, HubTypes DEF HubIInv, Notify, Lone, Alone, Shown, clientVars, pumpVars
    <3> QED BY <3>1, <3>2
  <2> QED BY <2>1, <2>2, <2>3 DEF HubIInv
<1>3. CASE Replace
  <2>1. TypeOK'
    <3>1. unnotified' \in BOOLEAN
      BY <1>3, Zenon DEF Replace
    <3>2. base' \in [Rows -> Contents] \cup {NoBase}'
      BY <1>3 DEF Replace, NoBase
    <3> QED BY <1>0, <1>3, <3>1, <3>2, HubAssumption DEF Replace, TypeOK, clientVars, pumpVars
  <2>2. Announced' /\ PumpSeen' /\ PumpServesSinks' /\ Untouched'
    BY <1>0, <1>3, HubTypes DEF HubIInv, Replace, Announced, PumpSeen, PumpServesSinks, Untouched,
       clientVars, pumpVars
  <2>3. ASSUME NEW c \in Clients PROVE Seeded(c)' /\ Lone(c)'
    <3>1. cpc[c] \notin {"sample", "recheck"}
      BY <1>3, HubAssumption DEF HubIInv, Seeded, Replace, Free
    <3>2. Seeded(c)'
      BY <1>0, <1>3, <3>1, HubTypes DEF HubIInv, Replace, Seeded, clientVars, pumpVars
    <3>3. Lone(c)'
      BY <1>0, <1>3, HubTypes DEF HubIInv, Replace, Lone, Alone, PumpSeen, clientVars, pumpVars
    <3> QED BY <3>2, <3>3
  <2> QED BY <2>1, <2>2, <2>3 DEF HubIInv
<1> QED BY <1>1, <1>2, <1>3

\* serve: a client is seeded, registered, and leaves.
LEMMA HubClients ==
  ASSUME HubIInv, NEW c \in Clients,
         \/ SeedBegin(c) \/ SeedSample(c) \/ SeedRecheck(c)
         \/ RegisterFirst(c) \/ RegisterNext(c) \/ Deregister(c)
  PROVE  HubIInv'
<1>0. TypeOK /\ Seeded(c) /\ Lone(c)
  BY DEF HubIInv
<1> DEFINE Else(d) ==
      cpc'[d] = cpc[d] /\ seed'[d] = seed[d] /\ view'[d] = view[d] /\ attaches'[d] = attaches[d]
<1>1. CASE SeedBegin(c)
  <2>1. TypeOK'
    BY <1>0, <1>1, HubAssumption DEF SeedBegin, TypeOK, screenVars, pumpVars, Sample
  <2>2. Announced' /\ PumpSeen' /\ PumpServesSinks'
    BY <1>1 DEF HubIInv, SeedBegin, Announced, PumpSeen, PumpServesSinks, screenVars, pumpVars
  <2>3. /\ attaches'[c] = attaches[c] + 1 /\ cpc'[c] = "sample" /\ lock' = c
        /\ seed'[c].gen = gen /\ seed'[c].source = seed[c].source
        /\ \A d \in Clients : d # c => Else(d)
    BY <1>0, <1>1 DEF SeedBegin, TypeOK, Sample
  <2>4. Untouched'
    BY <1>0, <2>3, HubTypes DEF Untouched
  <2>5. ASSUME NEW d \in Clients PROVE Seeded(d)'
    <3>1. CASE d = c
      BY <1>0, <1>1, <2>3, <3>1, HubTypes DEF SeedBegin, Seeded, screenVars, pumpVars
    <3>2. CASE d # c
      <4>1. Seeded(d) /\ cpc[d] \notin {"sample", "recheck"}
        BY <1>1, HubAssumption DEF HubIInv, Seeded, SeedBegin, Free
      <4> QED BY <1>1, <2>3, <3>2, <4>1 DEF SeedBegin, Seeded, screenVars, pumpVars
    <3> QED BY <3>1, <3>2
  <2>6. ASSUME NEW d \in Clients PROVE Lone(d)'
    <3>1. CASE d = c
      <4>1. Alone(c)' => \A e \in Clients : attaches[e] = 0
        BY <1>0, <2>3, HubTypes DEF Alone
      <4>2. c \notin sinks'
        BY <1>0, <1>1 DEF Seeded, SeedBegin
      <4> QED BY <1>1, <3>1, <4>1, <4>2 DEF HubIInv, Untouched, Lone, SeedBegin, pumpVars,
           screenVars
    <3>2. CASE d # c
      <4>1. ~Alone(d)'
        BY <1>0, <2>3, <3>2, HubTypes DEF Alone
      <4> QED BY <4>1 DEF Lone
    <3> QED BY <3>1, <3>2
  <2> QED BY <2>1, <2>2, <2>4, <2>5, <2>6 DEF HubIInv
<1>2. CASE SeedSample(c)
  <2>1. TypeOK'
    BY <1>0, <1>2 DEF SeedSample, TypeOK, screenVars, pumpVars, Sample
  <2>2. Announced' /\ PumpSeen' /\ PumpServesSinks' /\ Untouched'
    BY <1>2 DEF HubIInv, SeedSample, Announced, PumpSeen, PumpServesSinks, Untouched, screenVars,
       pumpVars
  <2>3. /\ cpc'[c] = "recheck" /\ view'[c] = screen /\ attaches' = attaches
        /\ seed'[c].gen = seed[c].gen /\ seed'[c].source = source /\ seed'[c].seq = seq
        /\ \A d \in Clients : d # c => Else(d)
    BY <1>0, <1>2 DEF SeedSample, TypeOK, Sample
  <2>4. gen <= seq
    BY <1>0, HubTypes DEF HubIInv, Announced
  <2>5. Seeded(c)'
    BY <1>0, <1>2, <2>3, <2>4, HubTypes DEF SeedSample, Seeded, screenVars, pumpVars
  <2>6. Lone(c)'
    <3>1. c \notin sinks'
      BY <1>0, <1>2 DEF Seeded, SeedSample
    <3> QED BY <1>0, <1>2, <2>3, <3>1 DEF Lone, Alone, SeedSample, pumpVars
  <2>7. ASSUME NEW d \in Clients, d # c PROVE Seeded(d)' /\ Lone(d)'
    <3>1. Seeded(d)'
      <4>1. Seeded(d) /\ Else(d)
        BY <2>3, <2>7 DEF HubIInv
      <4>2. UNCHANGED <<screen, seq, gen, source, lock, attaches, sinks>>
        BY <1>2 DEF SeedSample, screenVars
      <4> QED BY <4>1, <4>2 DEF Seeded
    <3>2. Lone(d)'
      BY <1>2, <2>3, <2>7 DEF HubIInv, Lone, Alone, Shown, SeedSample, screenVars, pumpVars
    <3> QED BY <3>1, <3>2
  <2> QED BY <2>1, <2>2, <2>5, <2>6, <2>7 DEF HubIInv
<1>3. CASE SeedRecheck(c)
  <2>0. /\ cpc[c] = "recheck"
        /\ cpc' = [cpc EXCEPT ![c] = IF gen = seed[c].gen THEN "seeded" ELSE "sample"]
        /\ lock' = IF gen = seed[c].gen THEN Free ELSE lock
        /\ seed' = [seed EXCEPT ![c].gen = gen]
        /\ UNCHANGED <<screenVars, base, attaches, view, sinks, pumpVars>>
    <3>1. gen = seed[c].gen => [seed EXCEPT ![c].gen = gen] = seed
      BY <1>0 DEF TypeOK, Sample
    <3> QED BY <1>3, <3>1 DEF SeedRecheck
  <2>1. TypeOK'
    BY <1>0, <2>0 DEF TypeOK, screenVars, pumpVars, Sample
  <2>2. Announced' /\ PumpSeen' /\ PumpServesSinks' /\ Untouched'
    BY <2>0 DEF HubIInv, Announced, PumpSeen, PumpServesSinks, Untouched, screenVars, pumpVars
  <2>3. /\ cpc'[c] = (IF gen = seed[c].gen THEN "seeded" ELSE "sample")
        /\ seed'[c].gen = gen /\ seed'[c].source = seed[c].source /\ seed'[c].seq = seed[c].seq
        /\ \A d \in Clients : d # c => Else(d)
    BY <1>0, <2>0 DEF TypeOK, Sample
  <2>5. Seeded(c)'
    BY <1>0, <2>0, <2>3, HubTypes DEF Seeded, screenVars, pumpVars
  <2>6. Lone(c)'
    <3>1. c \notin sinks'
      BY <1>0, <2>0 DEF Seeded
    <3> QED BY <1>0, <2>0, <2>3, <3>1 DEF Lone, Alone, pumpVars
  <2>7. ASSUME NEW d \in Clients, d # c PROVE Seeded(d)' /\ Lone(d)'
    <3>1. Seeded(d) /\ cpc[d] \notin {"sample", "recheck"}
      BY <1>0, <2>0, <2>7, HubAssumption DEF HubIInv, Seeded
    <3> QED BY <2>0, <2>3, <2>7, <3>1 DEF HubIInv, Seeded, Lone, Alone, Shown, screenVars, pumpVars
  <2> QED BY <2>1, <2>2, <2>5, <2>6, <2>7 DEF HubIInv
<1>4. CASE RegisterFirst(c)
  <2>1. TypeOK'
    <3>1. NoFrame \in Frame
      BY DEF NoFrame, Frame
    <3> QED BY <1>0, <1>4, <3>1 DEF RegisterFirst, TypeOK, screenVars, Sample
  <2>2. /\ cpc'[c] = "started" /\ c \in sinks' /\ seed' = seed /\ view' = view
        /\ attaches' = attaches
        /\ \A d \in Clients : d # c => cpc'[d] = cpc[d] /\ (d \in sinks' <=> d \in sinks)
    BY <1>0, <1>4 DEF RegisterFirst, TypeOK
  <2>3. Announced' /\ PumpServesSinks'
    BY <1>4 DEF HubIInv, RegisterFirst, Announced, PumpServesSinks, screenVars
  <2>4. PumpSeen'
    BY <1>0, <1>4, HubTypes DEF HubIInv, PumpSeen, RegisterFirst, Seeded, screenVars
  <2>5. attaches[c] # 0
    BY <1>0, <1>4 DEF RegisterFirst, Seeded
  <2>6. Untouched'
    BY <2>2, <2>5 DEF Untouched
  <2>7. ASSUME NEW d \in Clients PROVE Seeded(d)'
    BY <1>4, <2>2 DEF HubIInv, RegisterFirst, Seeded, screenVars
  <2>8. Lone(c)'
    BY <1>0, <1>4, <2>2, HubTypes DEF RegisterFirst, Seeded, Lone, Alone, screenVars
  <2>9. ASSUME NEW d \in Clients, d # c PROVE Lone(d)'
    BY <2>2, <2>5, <2>9 DEF Lone, Alone
  <2> QED BY <2>1, <2>3, <2>4, <2>6, <2>7, <2>8, <2>9 DEF HubIInv
<1>5. CASE RegisterNext(c)
  <2>1. TypeOK'
    BY <1>0, <1>5 DEF RegisterNext, TypeOK, screenVars, pumpVars
  <2>2. /\ cpc'[c] = "joined" /\ c \in sinks' /\ seed' = seed /\ view' = view
        /\ attaches' = attaches
        /\ \A d \in Clients : d # c => cpc'[d] = cpc[d] /\ (d \in sinks' <=> d \in sinks)
    BY <1>0, <1>5 DEF RegisterNext, TypeOK
  <2>3. Announced' /\ PumpServesSinks' /\ PumpSeen' /\ Untouched'
    BY <1>5, <2>2 DEF HubIInv, RegisterNext, Announced, PumpServesSinks, PumpSeen, Untouched,
       screenVars, pumpVars
  <2>4. attaches[c] # 0 /\ ~Alone(c)
    BY <1>0, <1>5 DEF RegisterNext, Seeded, Lone
  <2>5. ASSUME NEW d \in Clients PROVE Seeded(d)'
    BY <1>5, <2>2 DEF HubIInv, RegisterNext, Seeded, screenVars
  <2>6. ASSUME NEW d \in Clients PROVE Lone(d)'
    BY <2>2, <2>4 DEF Lone, Alone
  <2> QED BY <2>1, <2>3, <2>5, <2>6 DEF HubIInv
<1>6. CASE Deregister(c)
  <2>1. TypeOK'
    BY <1>0, <1>6 DEF Deregister, TypeOK, screenVars, pumpVars
  <2>2. /\ cpc'[c] = "away" /\ c \notin sinks' /\ seed' = seed /\ view' = view
        /\ attaches' = attaches
        /\ \A d \in Clients : d # c => cpc'[d] = cpc[d] /\ (d \in sinks' <=> d \in sinks)
    BY <1>0, <1>6 DEF Deregister, TypeOK
  <2>3. Announced' /\ PumpServesSinks' /\ PumpSeen' /\ Untouched'
    BY <1>6, <2>2 DEF HubIInv, Deregister, Announced, PumpServesSinks, PumpSeen, Untouched,
       screenVars, pumpVars
  <2>5. ASSUME NEW d \in Clients PROVE Seeded(d)'
    BY <1>6, <2>2 DEF HubIInv, Deregister, Seeded, screenVars
  <2>6. ASSUME NEW d \in Clients PROVE Lone(d)'
    BY <1>6, <2>2 DEF HubIInv, Lone, Alone, Deregister, Shown, screenVars, pumpVars
  <2> QED BY <2>1, <2>3, <2>5, <2>6 DEF HubIInv
<1> QED BY <1>1, <1>2, <1>3, <1>4, <1>5, <1>6

\* A frame over a view is a screen.
LEMMA FrameOverView ==
  ASSUME TypeOK, NEW c \in Clients
  PROVE  Shown(c) \in [Rows -> Contents]
<1>1. PICK rows \in SUBSET Rows : frame \in [rows -> Contents]
  BY DEF TypeOK, Frame
<1> QED BY <1>1 DEF Shown, TypeOK

\* The pump's steps.
LEMMA HubPump ==
  ASSUME HubIInv, PumpWait \/ Coalesce \/ PumpObserve \/ PumpBroadcast \/ PumpCheck
  PROVE  HubIInv'
<1>0. TypeOK /\ NoFrame \in Frame /\ DOMAIN NoFrame = {}
  BY DEF HubIInv, NoFrame, Frame
<1>1. CASE PumpWait
  <2>1. TypeOK'
    BY <1>0, <1>1 DEF PumpWait, TypeOK, screenVars, clientVars
  <2>2. Announced' /\ PumpServesSinks'
    BY <1>1 DEF HubIInv, PumpWait, Announced, PumpServesSinks, screenVars
  <2>3. PumpSeen'
    BY <1>0, <1>1, HubTypes DEF HubIInv, PumpWait, PumpSeen, NoSig, screenVars
  <2>4. Untouched'
    BY <1>1 DEF HubIInv, PumpWait, Untouched, clientVars
  <2>5. ASSUME NEW c \in Clients PROVE Seeded(c)'
    BY <1>1 DEF HubIInv, PumpWait, Seeded, screenVars, clientVars
  <2>6. ASSUME NEW c \in Clients PROVE Lone(c)'
    BY <1>0, <1>1, HubTypes DEF HubIInv, PumpWait, Lone, Alone, Shown, NoSig, screenVars, clientVars
  <2> QED BY <2>1, <2>2, <2>3, <2>4, <2>5, <2>6 DEF HubIInv
<1>2. CASE Coalesce
  <2>1. TypeOK'
    BY <1>0, <1>2 DEF Coalesce, TypeOK, screenVars, clientVars
  <2>2. Announced' /\ PumpServesSinks' /\ Untouched'
    BY <1>2 DEF HubIInv, Coalesce, Announced, PumpServesSinks, Untouched, screenVars, clientVars
  <2>3. PumpSeen'
    BY <1>0, <1>2, HubTypes DEF HubIInv, Coalesce, PumpSeen, screenVars
  <2>5. ASSUME NEW c \in Clients PROVE Seeded(c)'
    BY <1>2 DEF HubIInv, Coalesce, Seeded, screenVars, clientVars
  <2>6. ASSUME NEW c \in Clients PROVE Lone(c)'
    BY <1>2 DEF HubIInv, Coalesce, Lone, Alone, Shown, screenVars, clientVars
  <2> QED BY <2>1, <2>2, <2>3, <2>5, <2>6 DEF HubIInv
<1>3. CASE PumpObserve
  <2>0. /\ frame = NoFrame /\ Changed \subseteq Rows /\ GridUpdate \in Frame
        /\ DOMAIN GridUpdate = Changed
    <3>1. frame = NoFrame /\ Changed \subseteq Rows
      BY <1>3 DEF HubIInv, PumpSeen, PumpObserve, Changed
    <3>2. GridUpdate \in [Changed -> Contents]
      BY <1>0, <3>1 DEF GridUpdate, TypeOK
    <3> QED BY <3>1, <3>2 DEF Frame
  <2>1. TypeOK'
    BY <1>0, <1>3, <2>0 DEF PumpObserve, TypeOK, screenVars, clientVars
  <2>2. Announced' /\ PumpServesSinks'
    BY <1>3 DEF HubIInv, PumpObserve, Announced, PumpServesSinks, screenVars
  <2>3. PumpSeen'
    BY <1>0, <1>3, HubTypes DEF HubIInv, PumpObserve, PumpSeen, Announced, screenVars
  <2>4. Untouched'
    BY <1>3 DEF HubIInv, PumpObserve, Untouched, clientVars
  <2>5. ASSUME NEW c \in Clients PROVE Seeded(c)'
    BY <1>3 DEF HubIInv, PumpObserve, Seeded, screenVars, clientVars
  <2>6. ASSUME NEW c \in Clients, Alone(c)' PROVE Lone(c)'
    <3>1. Alone(c) /\ Lone(c) /\ cpc[c] \notin {"sample", "recheck", "seeded"} /\ cpc' = cpc
      BY <1>3, <2>6 DEF HubIInv, Alone, Lone, PumpObserve, clientVars
    <3>2. CASE psig = seq
      BY <1>0, <1>3, <3>1, <3>2, HubTypes DEF PumpObserve, Lone, Shown, screenVars, clientVars
    <3>3. CASE psig # seq
      <4>1. base' = screen /\ frame' = GridUpdate /\ psig' = seq /\ base' # NoBase'
        BY <1>0, <1>3, <3>3, HubTypes DEF PumpObserve, NoBase
      <4>2. c \in sinks => Shown(c)' = screen
        <5> SUFFICES ASSUME c \in sinks, NEW r \in Rows, r \notin Changed
                     PROVE  view[c][r] = screen[r]
          BY <1>0, <1>3, <2>0, <4>1, HubTypes DEF Shown, GridUpdate, PumpObserve
        <5>1. base # NoBase /\ base[r] = screen[r]
          BY DEF Changed
        <5>2. Shown(c) = base
          BY <3>1, <5>1 DEF Lone
        <5>3. Shown(c)[r] = view[c][r]
          BY <1>0, <2>0 DEF Shown
        <5> QED BY <5>1, <5>2, <5>3
      <4> QED BY <1>0, <1>3, <3>1, <4>1, <4>2, HubTypes DEF PumpObserve, Lone, screenVars
    <3> QED BY <3>2, <3>3
  <2> QED BY <2>1, <2>2, <2>3, <2>4, <2>5, <2>6 DEF HubIInv, Lone
<1>4. CASE PumpBroadcast
  <2>0. /\ view' \in [Clients -> [Rows -> Contents]]
        /\ \A c \in Clients : view'[c] = IF c \in sinks THEN Shown(c) ELSE view[c]
    <3>1. ASSUME NEW c \in Clients
          PROVE  /\ view'[c] = IF c \in sinks THEN Shown(c) ELSE view[c]
                 /\ view'[c] \in [Rows -> Contents]
      <4>1. Shown(c) \in [Rows -> Contents] /\ view[c] \in [Rows -> Contents]
        BY <1>0, FrameOverView, HubTypes
      <4>2. view'[c] = [r \in Rows |->
              IF c \in sinks /\ r \in DOMAIN frame THEN frame[r] ELSE view[c][r]]
        BY <1>4 DEF PumpBroadcast
      <4>3. CASE c \in sinks
        BY <4>1, <4>2, <4>3 DEF Shown
      <4>4. CASE c \notin sinks
        BY <4>1, <4>2, <4>4
      <4> QED BY <4>3, <4>4
    <3>2. view' = [c \in Clients |-> view'[c]]
      BY <1>4 DEF PumpBroadcast
    <3> QED BY <3>1, <3>2
  <2>1. TypeOK'
    BY <1>0, <1>4, <2>0 DEF PumpBroadcast, TypeOK, screenVars, clientVars
  <2>2. Announced' /\ PumpServesSinks' /\ Untouched'
    BY <1>4 DEF HubIInv, PumpBroadcast, Announced, PumpServesSinks, Untouched, screenVars,
       clientVars
  <2>3. PumpSeen'
    BY <1>0, <1>4 DEF HubIInv, PumpBroadcast, PumpSeen, NoFrame, screenVars
  <2>5. ASSUME NEW c \in Clients PROVE Seeded(c)'
    BY <1>4, <2>0 DEF HubIInv, PumpBroadcast, Seeded, screenVars, clientVars
  <2>6. ASSUME NEW c \in Clients, Alone(c)' PROVE Lone(c)'
    <3>1. Alone(c) /\ Lone(c) /\ cpc[c] \notin {"sample", "recheck", "seeded"} /\ cpc' = cpc
      BY <1>4, <2>6 DEF HubIInv, Alone, Lone, PumpBroadcast, clientVars
    <3>2. Shown(c)' = view'[c]
      <4>1. DOMAIN frame' = {} /\ view'[c] \in [Rows -> Contents]
        BY <1>0, <1>4, <2>0 DEF PumpBroadcast
      <4> QED BY <4>1 DEF Shown
    <3> QED BY <1>4, <2>0, <3>1, <3>2 DEF PumpBroadcast, Lone, screenVars, NoBase
  <2> QED BY <2>1, <2>2, <2>3, <2>5, <2>6 DEF HubIInv, Lone
<1>5. CASE PumpCheck
  <2>1. TypeOK'
    BY <1>0, <1>5 DEF PumpCheck, TypeOK, screenVars, clientVars
  <2>2. Announced' /\ PumpServesSinks' /\ Untouched'
    BY <1>5 DEF HubIInv, PumpCheck, Announced, PumpServesSinks, Untouched, screenVars, clientVars
  <2>3. PumpSeen'
    BY <1>0, <1>5 DEF HubIInv, PumpCheck, PumpSeen, screenVars
  <2>5. ASSUME NEW c \in Clients PROVE Seeded(c)'
    BY <1>5 DEF HubIInv, PumpCheck, Seeded, screenVars, clientVars
  <2>6. ASSUME NEW c \in Clients PROVE Lone(c)'
    BY <1>5 DEF HubIInv, PumpCheck, Lone, Alone, Shown, screenVars, clientVars
  <2> QED BY <2>1, <2>2, <2>3, <2>5, <2>6 DEF HubIInv
<1> QED BY <1>1, <1>2, <1>3, <1>4, <1>5

\* A pump that sleeps with nothing announced has seen all of the screen.
LEMMA AsleepMeansSeen ==
  ASSUME HubIInv, PumpIdle
  PROVE  psig = seq
BY HubTypes DEF HubIInv, PumpIdle, Announced, PumpSeen

\* attach.rs and screen.rs, for any number of clients, rows and changes, and any
\* number of restarts of the session: sinks are never without a pump, the pump
\* never sleeps over a change, and a client that is alone shows the screen.
THEOREM HubSafe == Spec => []HubInv
<1>1. HubIInv => HubInv
  <2> SUFFICES ASSUME HubIInv PROVE HubInv
    OBVIOUS
  <2>1. NoLostWake
    BY AsleepMeansSeen DEF NoLostWake
  <2>2. ASSUME PumpIdle, NEW c \in sinks, Alone(c) PROVE view[c] = screen
    <3>1. c \in Clients /\ Lone(c) /\ psig = seq /\ TypeOK
      BY <2>2, AsleepMeansSeen DEF HubIInv, TypeOK
    <3>2. CASE base = NoBase
      BY <2>2, <3>1, <3>2 DEF Lone, PumpIdle
    <3>3. CASE base # NoBase
      <4>1. Shown(c) = screen
        BY <2>2, <3>1, <3>3 DEF Lone
      <4>2. frame = NoFrame /\ view[c] \in [Rows -> Contents]
        BY <2>2, <3>1, HubTypes DEF HubIInv, PumpSeen, PumpIdle
      <4>3. Shown(c) = view[c]
        BY <4>2 DEF Shown, NoFrame
      <4> QED BY <4>1, <4>3
    <3> QED BY <3>2, <3>3
  <2>3. LoneSinkCaughtUp
    BY <2>2 DEF LoneSinkCaughtUp
  <2> QED BY <2>1, <2>3 DEF HubIInv, HubInv
<1>2. HubIInv /\ [Next]_vars => HubIInv'
  <2> SUFFICES ASSUME HubIInv, [Next]_vars PROVE HubIInv'
    OBVIOUS
  <2>1. CASE UNCHANGED vars
    BY <2>1 DEF vars, screenVars, clientVars, pumpVars, HubIInv, TypeOK, Announced, PumpSeen,
       PumpServesSinks, Untouched, Seeded, Lone, Alone, Shown
  <2> QED BY <2>1, HubOutput, HubClients, HubPump DEF Next, Seeding
<1> QED BY <1>1, <1>2, HubInitial, PTL DEF Spec

(***************************************************************************)
(* The control connection.                                                 *)
(***************************************************************************)

\* run_once has a connection; nothing of one is left; it is up.
Up == {"hello", "subscribe", "publish", "ready", "beat"}
Held == Up \cup {"closing"}
Gone == {"down", "start", "end", "closed"}
Ready == {"ready", "beat"}

Rpcs == {"idle", "spawned", "begin", "put", "wait", "lost", "ok", "error"}

ControlType ==
  /\ lc \in Up \cup Gone \cup {"closing", "writer", "flag", "fail"}
  /\ conn \in 0..MaxTrouble + 1 /\ link \in BOOLEAN
  /\ io \subseteq Control!Conns /\ writer \in {0} \cup Control!Conns
  /\ published \in {"connecting", "connected", "disconnected"}
  /\ wantEvents \in BOOLEAN /\ flag \in BOOLEAN /\ stop \in BOOLEAN
  /\ rpc \in [Control!Reqs -> Rpcs]
  /\ via \in [Control!Reqs -> {0} \cup Control!Conns]
  /\ pending \subseteq Control!Reqs \X Control!Conns
  /\ wire \in [Control!Conns -> SUBSET Control!Reqs] /\ subs \subseteq Control!Conns
  /\ trouble \in 0..MaxTrouble

\* The sender and the tasks are the connection's while it is held, and both are
\* gone before the next one.  Every connection but the first cost a failure.
Life ==
  /\ lc \in Held => writer = conn /\ io = {conn} /\ conn > 0
  /\ lc \in Gone \cup {"flag", "fail"} => writer = 0
  /\ io \subseteq {conn} /\ (lc \in Gone => io = {})
  /\ link => lc \in Held
  /\ conn <= trouble + 1
  /\ lc \notin Up \/ ~link \/ rpc["hello"] = "error" \/ rpc["sub"] = "error" =>
       stop \/ conn <= trouble
  /\ lc \in Ready => published = "connected"

\* The lifecycle's own requests belong to the step that makes them.
OwnCalls ==
  /\ rpc["hello"] # "idle" => lc \in {"hello", "beat"}
  /\ rpc["sub"] # "idle" => lc = "subscribe"
  /\ \A r \in {"hello", "sub"} : rpc[r] = "put" => via[r] = conn
  /\ rpc["sub"] = "ok" => conn \in subs

\* Whoever waits is in the table, for the connection that is there.
Waiting ==
  \A r \in Control!Reqs : rpc[r] = "wait" =>
    via[r] = conn /\ <<r, conn>> \in pending /\ lc \notin Gone

\* The task of events() lives and dies with one connection, and the flag says
\* that this connection has been asked for events.
Asked ==
  /\ ~wantEvents => rpc["task"] = "idle" /\ (lc \in {"start"} \cup Up => ~flag)
  /\ lc \in {"start", "hello", "subscribe", "publish"} => rpc["task"] \in {"idle", "lost"}
  /\ lc \in {"start", "hello"} => ~flag
  /\ lc = "subscribe" => wantEvents
  /\ lc = "publish" /\ wantEvents => conn \in subs
  /\ lc \in Ready /\ rpc["task"] = "spawned" => ~flag
  /\ lc \in Ready /\ rpc["task"] \in {"put", "wait", "ok", "error"} => via["task"] = conn
  /\ lc \in Ready /\ rpc["task"] = "ok" => conn \in subs
  /\ lc \in {"fail", "down"} /\ flag => rpc["task"] \in {"begin", "error"}

\* The invariant the control connection's induction carries.
ControlIInv ==
  /\ ControlType /\ Life /\ OwnCalls /\ Waiting /\ Asked /\ Control!EventsFlow

\* The client's own requests are requests.
LEMMA OwnReqs == "hello" \in Control!Reqs /\ "sub" \in Control!Reqs /\ "task" \in Control!Reqs
BY DEF Control!Reqs, Control!Own

\* The steps of the lifecycle, of the task of events() and of the world that
\* leave the table of requests alone preserve it.
LEMMA ControlSteps ==
  ASSUME ControlIInv, ~SlowRuntime, ~EventsAnytime,
         \/ Control!Open \/ Control!OpenFails \/ Control!HelloAnswered \/ Control!Subscribed
         \/ Control!Publish \/ Control!Beat \/ Control!BeatAnswered \/ Control!GiveUp
         \/ Control!DropConnection \/ Control!ClearWriter \/ Control!ClearFlag \/ Control!Retry
         \/ Control!LifecycleEnds \/ Control!Events \/ Control!TaskRuns \/ Control!TaskEnds
         \/ Control!Shutdown \/ Control!Cut
  PROVE  ControlIInv'
<1>0. ControlType /\ Life /\ OwnCalls /\ Waiting /\ Asked /\ Control!EventsFlow
  BY DEF ControlIInv
<1> USE <1>0, OwnReqs, ControlAssumption DEF ControlType, Control!reqVars, Control!Goto,
     Control!Bump,
     Control!Conns, Up, Held, Gone, Ready, Rpcs, Control!Done
<1>1. CASE Control!Open
  <2>1. ControlType'
    <3>1. conn <= trouble /\ conn' = conn + 1 /\ conn' \in 1..MaxTrouble + 1
      BY <1>1 DEF Control!Open, Life
    <3>2. link' \in BOOLEAN
      BY <1>1, Zenon DEF Control!Open
    <3>3. /\ io' \subseteq Control!Conns /\ writer' \in Control!Conns /\ lc' \in Up
          /\ rpc' \in [Control!Reqs -> Rpcs]
      BY <1>1, <3>1 DEF Control!Open
    <3>4. UNCHANGED <<published, wantEvents, flag, stop, via, pending, wire, subs, trouble>>
      BY <1>1 DEF Control!Open
    <3> QED BY <3>1, <3>2, <3>3, <3>4
  <2>2. Life'
    <3>1. conn <= trouble /\ io = {} /\ link' /\ lc' \in Up
      BY <1>1 DEF Control!Open, Life
    <3>2. rpc'["hello"] = "begin" /\ rpc'["sub"] = "idle"
      BY <1>1 DEF Control!Open, OwnCalls
    <3> QED BY <1>1, <3>1, <3>2 DEF Control!Open, Life
  <2>3. OwnCalls'
    BY <1>1 DEF Control!Open, OwnCalls
  <2>4. Waiting'
    BY <1>1 DEF Control!Open, Waiting, Life
  <2>5. Asked' /\ Control!EventsFlow'
    BY <1>1 DEF Control!Open, Asked, Control!EventsFlow, Life, OwnCalls
  <2> QED BY <2>1, <2>2, <2>3, <2>4, <2>5 DEF ControlIInv
<1>2. CASE Control!OpenFails
  <2>1. ControlType'
    BY <1>2 DEF Control!OpenFails
  <2>2. Life'
    BY <1>2 DEF Control!OpenFails, Life, OwnCalls
  <2>3. OwnCalls'
    BY <1>2 DEF Control!OpenFails, OwnCalls
  <2>4. Waiting'
    BY <1>2 DEF Control!OpenFails, Waiting, Life
  <2>5. Asked' /\ Control!EventsFlow'
    BY <1>2 DEF Control!OpenFails, Asked, Control!EventsFlow, Life, OwnCalls
  <2> QED BY <2>1, <2>2, <2>3, <2>4, <2>5 DEF ControlIInv
<1>3. CASE Control!HelloAnswered
  <2>1. ControlType'
    BY <1>3 DEF Control!HelloAnswered
  <2>2. Life'
    BY <1>3 DEF Control!HelloAnswered, Life, OwnCalls
  <2>3. OwnCalls'
    BY <1>3 DEF Control!HelloAnswered, OwnCalls
  <2>4. Waiting'
    BY <1>3 DEF Control!HelloAnswered, Waiting, Life
  <2>5. Asked' /\ Control!EventsFlow'
    BY <1>3 DEF Control!HelloAnswered, Asked, Control!EventsFlow, Life, OwnCalls
  <2> QED BY <2>1, <2>2, <2>3, <2>4, <2>5 DEF ControlIInv
<1>4. CASE Control!Subscribed
  <2>1. ControlType'
    BY <1>4 DEF Control!Subscribed
  <2>2. Life'
    BY <1>4 DEF Control!Subscribed, Life, OwnCalls
  <2>3. OwnCalls'
    BY <1>4 DEF Control!Subscribed, OwnCalls
  <2>4. Waiting'
    BY <1>4 DEF Control!Subscribed, Waiting, Life
  <2>5. Asked' /\ Control!EventsFlow'
    BY <1>4 DEF Control!Subscribed, Asked, Control!EventsFlow, Life, OwnCalls
  <2> QED BY <2>1, <2>2, <2>3, <2>4, <2>5 DEF ControlIInv
<1>5. CASE Control!Publish
  <2>1. ControlType'
    BY <1>5 DEF Control!Publish
  <2>2. Life'
    BY <1>5 DEF Control!Publish, Life, OwnCalls
  <2>3. OwnCalls'
    BY <1>5 DEF Control!Publish, OwnCalls
  <2>4. Waiting'
    BY <1>5 DEF Control!Publish, Waiting, Life
  <2>5. Asked' /\ Control!EventsFlow'
    BY <1>5 DEF Control!Publish, Asked, Control!EventsFlow, Life, OwnCalls
  <2> QED BY <2>1, <2>2, <2>3, <2>4, <2>5 DEF ControlIInv
<1>6. CASE Control!Beat
  <2>1. ControlType'
    BY <1>6 DEF Control!Beat
  <2>2. Life'
    BY <1>6 DEF Control!Beat, Life, OwnCalls
  <2>3. OwnCalls'
    BY <1>6 DEF Control!Beat, OwnCalls
  <2>4. Waiting'
    BY <1>6 DEF Control!Beat, Waiting, Life
  <2>5. Asked' /\ Control!EventsFlow'
    BY <1>6 DEF Control!Beat, Asked, Control!EventsFlow, Life, OwnCalls
  <2> QED BY <2>1, <2>2, <2>3, <2>4, <2>5 DEF ControlIInv
<1>7. CASE Control!BeatAnswered
  <2>1. ControlType'
    BY <1>7 DEF Control!BeatAnswered
  <2>2. Life'
    BY <1>7 DEF Control!BeatAnswered, Life, OwnCalls
  <2>3. OwnCalls'
    BY <1>7 DEF Control!BeatAnswered, OwnCalls
  <2>4. Waiting'
    BY <1>7 DEF Control!BeatAnswered, Waiting, Life
  <2>5. Asked' /\ Control!EventsFlow'
    BY <1>7 DEF Control!BeatAnswered, Asked, Control!EventsFlow, Life, OwnCalls
  <2> QED BY <2>1, <2>2, <2>3, <2>4, <2>5 DEF ControlIInv
<1>8. CASE Control!GiveUp
  <2>1. ControlType'
    BY <1>8 DEF Control!GiveUp
  <2>2. Life'
    BY <1>8 DEF Control!GiveUp, Life, OwnCalls
  <2>3. OwnCalls'
    BY <1>8 DEF Control!GiveUp, OwnCalls
  <2>4. Waiting'
    BY <1>8 DEF Control!GiveUp, Waiting, Life
  <2>5. Asked' /\ Control!EventsFlow'
    BY <1>8 DEF Control!GiveUp, Asked, Control!EventsFlow, Life, OwnCalls
  <2> QED BY <2>1, <2>2, <2>3, <2>4, <2>5 DEF ControlIInv
<1>9. CASE Control!DropConnection
  <2>1. ControlType'
    BY <1>9 DEF Control!DropConnection
  <2>2. Life'
    BY <1>9 DEF Control!DropConnection, Life, OwnCalls
  <2>3. OwnCalls'
    BY <1>9 DEF Control!DropConnection, OwnCalls
  <2>4. Waiting'
    BY <1>9 DEF Control!DropConnection, Waiting, Life
  <2>5. Asked' /\ Control!EventsFlow'
    BY <1>9 DEF Control!DropConnection, Asked, Control!EventsFlow, Life, OwnCalls
  <2> QED BY <2>1, <2>2, <2>3, <2>4, <2>5 DEF ControlIInv
<1>10. CASE Control!ClearWriter
  <2>1. ControlType'
    BY <1>10 DEF Control!ClearWriter
  <2>2. Life'
    BY <1>10 DEF Control!ClearWriter, Life, OwnCalls
  <2>3. OwnCalls'
    BY <1>10 DEF Control!ClearWriter, OwnCalls
  <2>4. Waiting'
    BY <1>10 DEF Control!ClearWriter, Waiting, Life
  <2>5. Asked' /\ Control!EventsFlow'
    BY <1>10 DEF Control!ClearWriter, Asked, Control!EventsFlow, Life, OwnCalls
  <2> QED BY <2>1, <2>2, <2>3, <2>4, <2>5 DEF ControlIInv
<1>11. CASE Control!ClearFlag
  <2>1. ControlType'
    BY <1>11 DEF Control!ClearFlag
  <2>2. Life'
    BY <1>11 DEF Control!ClearFlag, Life, OwnCalls
  <2>3. OwnCalls'
    BY <1>11 DEF Control!ClearFlag, OwnCalls
  <2>4. Waiting'
    BY <1>11 DEF Control!ClearFlag, Waiting, Life
  <2>5. Asked' /\ Control!EventsFlow'
    BY <1>11 DEF Control!ClearFlag, Asked, Control!EventsFlow, Life, OwnCalls
  <2> QED BY <2>1, <2>2, <2>3, <2>4, <2>5 DEF ControlIInv
<1>12. CASE Control!Retry
  <2>1. ControlType'
    BY <1>12 DEF Control!Retry
  <2>2. Life'
    BY <1>12 DEF Control!Retry, Life, OwnCalls
  <2>3. OwnCalls'
    BY <1>12 DEF Control!Retry, OwnCalls
  <2>4. Waiting'
    BY <1>12 DEF Control!Retry, Waiting, Life
  <2>5. Asked' /\ Control!EventsFlow'
    BY <1>12 DEF Control!Retry, Asked, Control!EventsFlow, Life, OwnCalls
  <2> QED BY <2>1, <2>2, <2>3, <2>4, <2>5 DEF ControlIInv
<1>13. CASE Control!LifecycleEnds
  <2>1. ControlType'
    BY <1>13 DEF Control!LifecycleEnds
  <2>2. Life'
    BY <1>13 DEF Control!LifecycleEnds, Life, OwnCalls
  <2>3. OwnCalls'
    BY <1>13 DEF Control!LifecycleEnds, OwnCalls
  <2>4. Waiting'
    BY <1>13 DEF Control!LifecycleEnds, Waiting, Life
  <2>5. Asked' /\ Control!EventsFlow'
    BY <1>13 DEF Control!LifecycleEnds, Asked, Control!EventsFlow, Life, OwnCalls
  <2> QED BY <2>1, <2>2, <2>3, <2>4, <2>5 DEF ControlIInv
<1>14. CASE Control!Events
  <2>1. ControlType'
    BY <1>14 DEF Control!Events
  <2>2. Life'
    BY <1>14 DEF Control!Events, Life, OwnCalls
  <2>3. OwnCalls'
    BY <1>14 DEF Control!Events, OwnCalls
  <2>4. Waiting'
    BY <1>14 DEF Control!Events, Waiting, Life
  <2>5. Asked' /\ Control!EventsFlow'
    BY <1>14 DEF Control!Events, Asked, Control!EventsFlow, Life, OwnCalls
  <2> QED BY <2>1, <2>2, <2>3, <2>4, <2>5 DEF ControlIInv
<1>15. CASE Control!TaskRuns
  <2>1. ControlType'
    BY <1>15 DEF Control!TaskRuns
  <2>2. Life'
    BY <1>15 DEF Control!TaskRuns, Life, OwnCalls
  <2>3. OwnCalls'
    BY <1>15 DEF Control!TaskRuns, OwnCalls
  <2>4. Waiting'
    BY <1>15 DEF Control!TaskRuns, Waiting, Life
  <2>5. Asked' /\ Control!EventsFlow'
    BY <1>15 DEF Control!TaskRuns, Asked, Control!EventsFlow, Life, OwnCalls
  <2> QED BY <2>1, <2>2, <2>3, <2>4, <2>5 DEF ControlIInv
<1>16. CASE Control!TaskEnds
  <2>1. ControlType'
    BY <1>16 DEF Control!TaskEnds
  <2>2. Life'
    BY <1>16 DEF Control!TaskEnds, Life, OwnCalls
  <2>3. OwnCalls'
    BY <1>16 DEF Control!TaskEnds, OwnCalls
  <2>4. Waiting'
    BY <1>16 DEF Control!TaskEnds, Waiting, Life
  <2>5. Asked' /\ Control!EventsFlow'
    BY <1>16 DEF Control!TaskEnds, Asked, Control!EventsFlow, Life, OwnCalls
  <2> QED BY <2>1, <2>2, <2>3, <2>4, <2>5 DEF ControlIInv
<1>17. CASE Control!Shutdown
  <2>1. ControlType'
    BY <1>17 DEF Control!Shutdown
  <2>2. Life'
    BY <1>17 DEF Control!Shutdown, Life, OwnCalls
  <2>3. OwnCalls'
    BY <1>17 DEF Control!Shutdown, OwnCalls
  <2>4. Waiting'
    BY <1>17 DEF Control!Shutdown, Waiting, Life
  <2>5. Asked' /\ Control!EventsFlow'
    BY <1>17 DEF Control!Shutdown, Asked, Control!EventsFlow, Life, OwnCalls
  <2> QED BY <2>1, <2>2, <2>3, <2>4, <2>5 DEF ControlIInv
<1>18. CASE Control!Cut
  <2>1. ControlType'
    <3>1. link' \in BOOLEAN
      BY <1>18, Zenon DEF Control!Cut
    <3>2. trouble' \in 0..MaxTrouble
      BY <1>18 DEF Control!Cut
    <3> QED BY <1>18, <3>1, <3>2 DEF Control!Cut
  <2>2. Life'
    BY <1>18 DEF Control!Cut, Life, OwnCalls
  <2>3. OwnCalls'
    BY <1>18 DEF Control!Cut, OwnCalls
  <2>4. Waiting'
    BY <1>18 DEF Control!Cut, Waiting, Life
  <2>5. Asked' /\ Control!EventsFlow'
    BY <1>18 DEF Control!Cut, Asked, Control!EventsFlow, Life, OwnCalls
  <2> QED BY <2>1, <2>2, <2>3, <2>4, <2>5 DEF ControlIInv
<1> QED BY <1>1, <1>2, <1>3, <1>4, <1>5, <1>6, <1>7, <1>8, <1>9, <1>10, <1>11, <1>12, <1>13, <1>14,
     <1>15, <1>16, <1>17, <1>18

\* FailPending and the end of a shutdown: nobody is left waiting.
LEMMA ControlFails ==
  ASSUME ControlIInv, ~SlowRuntime, Control!FailPending \/ Control!ShutdownEnds
  PROVE  ControlIInv'
<1>0. ControlType /\ Life /\ OwnCalls /\ Waiting /\ Asked /\ Control!EventsFlow
  BY DEF ControlIInv
<1> USE <1>0, OwnReqs, ControlAssumption DEF ControlType, Control!reqVars, Control!Goto,
     Control!Conns, Up, Held, Gone, Ready, Rpcs, Control!Done
<1>1. /\ rpc' \in [Control!Reqs -> Rpcs] /\ pending' = {}
      /\ \A r \in Control!Reqs : rpc'[r] = IF rpc[r] = "wait" THEN "error" ELSE rpc[r]
  BY DEF Control!FailPending, Control!ShutdownEnds, Control!FailAll, Waiting
<1>2. \A r \in Control!Reqs : rpc'[r] # "wait"
  BY <1>1
<1>3. ControlType'
  BY <1>1 DEF Control!FailPending, Control!ShutdownEnds
<1>4. Life'
  <2>1. /\ lc \in {"fail", "end"} /\ lc' \in {"down", "closed"} /\ writer' = 0 /\ ~link
        /\ io \subseteq {conn} /\ conn \notin io
        /\ UNCHANGED <<conn, link, io, stop, trouble>>
    BY DEF Control!FailPending, Control!ShutdownEnds, Life
  <2>2. io' = {}
    BY <2>1
  <2>3. conn <= trouble + 1 /\ (stop \/ conn <= trouble)
    BY <2>1 DEF Life
  <2> QED BY <2>1, <2>2, <2>3 DEF Life
<1>5. OwnCalls'
  BY <1>1 DEF Control!FailPending, Control!ShutdownEnds, OwnCalls
<1>6. Waiting'
  BY <1>2 DEF Waiting
<1>7. Asked' /\ Control!EventsFlow'
  BY <1>1 DEF Control!FailPending, Control!ShutdownEnds, Asked, Control!EventsFlow
<1> QED BY <1>3, <1>4, <1>5, <1>6, <1>7 DEF ControlIInv

\* The steps of a request, whose ever it is.
LEMMA ControlRequests ==
  ASSUME ControlIInv, NEW r \in Control!Reqs,
         \/ Control!Ask(r) \/ Control!CloneWriter(r) \/ Control!Put(r) \/ Control!TimeOut(r)
         \/ \E c \in Control!Conns : Control!Route(c, r, "ok") \/ Control!Route(c, r, "error")
  PROVE  ControlIInv'
<1>0. ControlType /\ Life /\ OwnCalls /\ Waiting /\ Asked /\ Control!EventsFlow
  BY DEF ControlIInv
<1> USE <1>0, OwnReqs, ControlAssumption DEF ControlType, Control!Bump,
     Control!Conns, Up, Held, Gone, Ready, Rpcs, Control!Done
<1>1. CASE Control!Ask(r)
  <2>0. r \notin {"hello", "sub", "task"} /\ rpc' = [rpc EXCEPT ![r] = "begin"]
    BY <1>1 DEF Control!Ask, Control!Own
  <2>1. ControlType'
    BY <1>1 DEF Control!Ask
  <2>2. Life' /\ OwnCalls' /\ Waiting'
    BY <1>1, <2>0 DEF Control!Ask, Life, OwnCalls, Waiting
  <2>3. Asked' /\ Control!EventsFlow'
    BY <1>1, <2>0 DEF Control!Ask, Asked, Control!EventsFlow
  <2> QED BY <2>1, <2>2, <2>3 DEF ControlIInv
<1>2. CASE Control!CloneWriter(r)
  <2>1. ControlType'
    BY <1>2 DEF Control!CloneWriter
  <2>2. Life'
    BY <1>2 DEF Control!CloneWriter, Life, OwnCalls
  <2>3. OwnCalls'
    BY <1>2 DEF Control!CloneWriter, OwnCalls, Life
  <2>4. Waiting'
    BY <1>2 DEF Control!CloneWriter, Waiting
  <2>5. Asked' /\ Control!EventsFlow'
    BY <1>2 DEF Control!CloneWriter, Asked, Control!EventsFlow, Life
  <2> QED BY <2>1, <2>2, <2>3, <2>4, <2>5 DEF ControlIInv
<1>3. CASE Control!Put(r)
  <2>0. /\ rpc[r] = "put" /\ rpc' \in [Control!Reqs -> Rpcs]
        /\ rpc'[r] = (IF via[r] \in io THEN "wait" ELSE "error")
        /\ \A s \in Control!Reqs : s # r => rpc'[s] = rpc[s]
        /\ pending \subseteq pending' /\ (via[r] \in io => <<r, via[r]>> \in pending')
        /\ UNCHANGED <<lc, conn, link, io, writer, published, wantEvents, flag, stop, via, subs,
                       trouble>>
    BY <1>3 DEF Control!Put
  <2>1. ControlType'
    <3>1. CASE via[r] \in io
      <4>1. via[r] \in Control!Conns /\ wire[via[r]] \cup {r} \in SUBSET Control!Reqs
        BY <3>1
      <4>2. pending' = pending \cup {<<r, via[r]>>}
        BY <1>3, <3>1 DEF Control!Put
      <4>3. wire' = [wire EXCEPT ![via[r]] = wire[via[r]] \cup {r}]
        BY <1>3, <3>1 DEF Control!Put
      <4>4. wire' \in [Control!Conns -> SUBSET Control!Reqs]
        BY <4>1, <4>3
      <4> QED BY <2>0, <4>1, <4>2, <4>4
    <3>2. CASE via[r] \notin io
      BY <1>3, <2>0, <3>2 DEF Control!Put
    <3> QED BY <3>1, <3>2
  <2>2. Life'
    BY <2>0 DEF Life, OwnCalls
  <2>3. OwnCalls'
    BY <2>0 DEF OwnCalls
  <2>4. Waiting'
    BY <2>0 DEF Waiting, Life
  <2>5. Asked' /\ Control!EventsFlow'
    BY <2>0 DEF Asked, Control!EventsFlow
  <2> QED BY <2>1, <2>2, <2>3, <2>4, <2>5 DEF ControlIInv
<1>4. CASE Control!TimeOut(r)
  <2>1. ControlType'
    BY <1>4 DEF Control!TimeOut
  <2>2. Life'
    BY <1>4 DEF Control!TimeOut, Life, OwnCalls
  <2>3. OwnCalls'
    BY <1>4 DEF Control!TimeOut, OwnCalls
  <2>4. Waiting'
    BY <1>4 DEF Control!TimeOut, Waiting
  <2>5. Asked' /\ Control!EventsFlow'
    BY <1>4 DEF Control!TimeOut, Asked, Control!EventsFlow
  <2> QED BY <2>1, <2>2, <2>3, <2>4, <2>5 DEF ControlIInv
<1>5. ASSUME NEW c \in Control!Conns, NEW result \in {"ok", "error"}, Control!Route(c, r, result)
      PROVE  ControlIInv'
  <2>0. /\ c = conn /\ link /\ lc \in Held /\ subs \subseteq subs'
        /\ rpc' = rpc \/ (rpc[r] = "wait" /\ via[r] = conn /\ rpc' = [rpc EXCEPT ![r] = result])
        /\ r \in {"sub", "task"} /\ result = "ok" => conn \in subs'
        /\ trouble' \in {trouble, trouble + 1} /\ trouble' <= MaxTrouble
        /\ r \in {"hello", "sub", "task"} /\ result = "error" => trouble' = trouble + 1
        /\ UNCHANGED <<lc, conn, link, io, writer, published, wantEvents, flag, stop, via>>
    BY <1>5 DEF Control!Route, Life, Control!Own
  <2>1. ControlType'
    <3>1. /\ pending' \subseteq Control!Reqs \X Control!Conns /\ subs' \subseteq Control!Conns
          /\ wire' \in [Control!Conns -> SUBSET Control!Reqs]
      BY <1>5 DEF Control!Route
    <3> QED BY <2>0, <3>1
  <2>2. Life'
    <3>0. trouble \in Nat /\ conn \in Nat /\ conn <= trouble + 1
      BY DEF Life
    <3>1. conn <= trouble' + 1 /\ trouble <= trouble' /\ trouble' \in Nat
      <4>1. trouble' = trouble \/ trouble' = trouble + 1
        BY <2>0
      <4> QED BY <3>0, <4>1
    <3>2. ASSUME rpc'["hello"] = "error" \/ rpc'["sub"] = "error" PROVE stop \/ conn <= trouble'
      <4>1. CASE rpc["hello"] = "error" \/ rpc["sub"] = "error"
        BY <2>0, <4>1 DEF Life
      <4>2. CASE ~(rpc["hello"] = "error" \/ rpc["sub"] = "error")
        <5>1. r \in {"hello", "sub"} /\ result = "error"
          BY <2>0, <3>2, <4>2
        <5>2. trouble' = trouble + 1
          BY <2>0, <5>1
        <5> QED BY <5>2 DEF Life
      <4> QED BY <4>1, <4>2
    <3>3. lc \notin Up \/ ~link => stop \/ conn <= trouble'
      BY <2>0, <3>1 DEF Life
    <3> QED BY <2>0, <3>1, <3>2, <3>3 DEF Life
  <2>3. OwnCalls'
    BY <2>0 DEF OwnCalls
  <2>4. Waiting'
    <3> SUFFICES ASSUME NEW s \in Control!Reqs, rpc'[s] = "wait"
                 PROVE  via'[s] = conn' /\ <<s, conn'>> \in pending' /\ lc' \notin Gone
      BY DEF Waiting
    <3>1. rpc[s] = "wait" /\ via[s] = conn /\ <<s, conn>> \in pending /\ lc \notin Gone
      BY <2>0 DEF Waiting
    <3>2. s # r \/ <<r, conn>> \notin pending
      BY <1>5, <2>0, <3>1 DEF Control!Route
    <3> QED BY <1>5, <2>0, <3>1, <3>2 DEF Control!Route
  <2>5. Asked'
    BY <2>0 DEF Asked
  <2>6. Control!EventsFlow'
    BY <2>0 DEF Control!EventsFlow
  <2> QED BY <2>1, <2>2, <2>3, <2>4, <2>5, <2>6 DEF ControlIInv
<1> QED BY <1>1, <1>2, <1>3, <1>4, <1>5

\* A task of an old connection goes when the runtime comes to it.
LEMMA ControlAborts ==
  ASSUME ControlIInv, NEW c \in Control!Conns, Control!AbortLands(c)
  PROVE  ControlIInv'
<1>0. ControlType /\ Life /\ OwnCalls /\ Waiting /\ Asked /\ Control!EventsFlow
  BY DEF ControlIInv
<1> USE <1>0 DEF Control!AbortLands, Control!reqVars
<1>1. ControlType' /\ OwnCalls' /\ Waiting' /\ Asked' /\ Control!EventsFlow'
  BY DEF ControlType, OwnCalls, Waiting, Asked, Control!EventsFlow
<1>2. Life'
  BY DEF Life, Held, Up, Gone
<1> QED BY <1>1, <1>2 DEF ControlIInv

\* Before the first connection it holds.
LEMMA ControlInitial == Control!Init => ControlIInv
<1> SUFFICES ASSUME Control!Init PROVE ControlIInv
  OBVIOUS
<1> USE OwnReqs, ControlAssumption DEF Control!Init, Up, Held, Gone, Ready, Rpcs, Control!Conns
<1>1. ControlType
  <2>1. link \in BOOLEAN /\ flag \in BOOLEAN /\ stop \in BOOLEAN
    BY Zenon
  <2> QED BY <2>1 DEF ControlType
<1>2. Life /\ OwnCalls /\ Waiting
  BY DEF Life, OwnCalls, Waiting
<1>3. Asked /\ Control!EventsFlow
  BY DEF Asked, Control!EventsFlow
<1> QED BY <1>1, <1>2, <1>3 DEF ControlIInv

\* client.rs and connection.rs, for any number of requests and of connections
\* that break: a connection that is up carries the events its user asked for,
\* and nobody waits on one that was cleaned up, as long as a task is not held up
\* for longer than a cleanup and events() is called on a connection that is up.
THEOREM EventsSafe ==
  ASSUME ~SlowRuntime, ~EventsAnytime
  PROVE  Control!Spec => []EventsFlow
<1>1. ControlIInv => EventsFlow
  <2> SUFFICES ASSUME ControlIInv PROVE EventsFlow
    OBVIOUS
  <2>1. Control!TypeOK
    <3>1. {wantEvents, flag, stop} \subseteq BOOLEAN
      BY DEF ControlIInv, ControlType
    <3> QED BY <3>1 DEF ControlIInv, ControlType, Control!TypeOK, Rpcs, Control!Done, Up, Gone
  <2>2. Control!WaitsOnLiveConnection
    BY DEF ControlIInv, Waiting, Control!WaitsOnLiveConnection, Gone
  <2> QED BY <2>1, <2>2 DEF ControlIInv, EventsFlow
<1>2. ControlIInv /\ [Control!Next]_(Control!vars) => ControlIInv'
  <2> SUFFICES ASSUME ControlIInv, [Control!Next]_(Control!vars) PROVE ControlIInv'
    OBVIOUS
  <2>1. CASE UNCHANGED Control!vars
    BY <2>1 DEF Control!vars, Control!reqVars, ControlIInv, ControlType, Life, OwnCalls, Waiting,
       Asked, Control!EventsFlow
  <2> QED BY <2>1, ControlSteps, ControlFails, ControlRequests, ControlAborts
          DEF Control!Next, Control!Request, Control!Lifecycle, Control!Task
<1> QED BY <1>1, <1>2, ControlInitial, PTL DEF Control!Spec

==============================================================================
