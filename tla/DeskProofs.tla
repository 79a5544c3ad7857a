------------------------------ MODULE DeskProofs ------------------------------
(***************************************************************************)
(* Proofs about what runs beside an agent or a human, for any values of the *)
(* constants.  Each part has an inductive invariant of its own; at the end *)
(* each is carried over to the behaviours of Desk, whose steps are the     *)
(* part's or leave it alone.                                               *)
(***************************************************************************)
EXTENDS Integers, Desk, TLAPS, FiniteSetTheorems, SequenceTheorems,
        WellFoundedInduction

-----------------------------------------------------------------------------
(* The parts, side by side *)

\* A step in a behaviour of a part is a step of the part, or leaves it alone.
LEMMA WakesStep ==
    ASSUME [DeskNext]_deskVars, part' = "wakes"
    PROVE  part = "wakes" /\ [Wakes!Next]_(Wakes!vars)
BY DEF DeskNext, MachineNext, deskVars, machineVars, wakes, Wakes!vars

LEMMA GateStep ==
    ASSUME [DeskNext]_deskVars, part' = "interrupts"
    PROVE  part = "interrupts" /\ [Gate!Next]_(Gate!vars)
BY DEF DeskNext, MachineNext, deskVars, machineVars, interrupts, Gate!vars

LEMMA AnswersStep ==
    ASSUME [DeskNext]_deskVars, part' = "replies"
    PROVE  part = "replies" /\ [Answers!Next]_(Answers!vars)
BY DEF DeskNext, MachineNext, deskVars, machineVars, replies, Answers!vars

LEMMA MailStep ==
    ASSUME [DeskNext]_deskVars, part' = "inbox"
    PROVE  part = "inbox" /\ [Mail!Next]_(Mail!vars)
BY DEF DeskNext, MachineNext, deskVars, machineVars, inbox, Mail!vars

LEMMA LineStep ==
    ASSUME [DeskNext]_deskVars, part' = "line"
    PROVE  part = "line" /\ [Line!Next]_(Line!vars)
BY DEF DeskNext, MachineNext, deskVars, machineVars, line, Line!vars, Line!thread, Line!watchers

-----------------------------------------------------------------------------
(* Wake hooks (Waker) *)

\* Told already, or in the output of a hook that is about to print.
ToBeTold(e, m) ==
    \/ m \in told[e]
    \/ \E h \in Wakes!Of(e) : hook[h].at = "emit" /\ m \in Wakes!ToAnnounce(hook[h])

WakeTypes ==
    /\ unread \in [WakeEngines -> SUBSET News]
    /\ seen \in [WakeEngines \cup {Wakes!Shared} -> (SUBSET News) \cup {None}]
    /\ hook \in [Hooks -> Wakes!Hook]
    /\ told \in [WakeEngines -> SUBSET News]
\* Only mail that was sent is anywhere.
Arrived ==
    /\ \A e \in WakeEngines : unread[e] \subseteq sent
    /\ \A f \in WakeEngines \cup {Wakes!Shared} : seen[f] # None => seen[f] \subseteq sent
    /\ \A h \in Hooks : hook[h].found \subseteq sent /\ hook[h].known \subseteq sent
\* The old watermark, shared by the engines, holds what each was told of.
OldWasTold == \A e \in WakeEngines : seen[Wakes!Shared] # None => seen[Wakes!Shared] \subseteq told[e]
\* What an engine's watermark holds and it has not read, it is told of;
FileIsTold ==
    \A e \in WakeEngines : seen[e] # None => \A m \in seen[e] \cap unread[e] : ToBeTold(e, m)
\* and so is what a hook that is about to save has read from the watermark: the
\* watermark it writes holds no more than that and what it prints.
KnownIsTold ==
    \A h \in Hooks : hook[h].at = "save" =>
        \A m \in hook[h].known \cap unread[h[1]] : ToBeTold(h[1], m)
\* The property, over what the files hold and over what the hooks hold of them.
WakeInv == WakeTypes /\ Arrived /\ OldWasTold /\ FileIsTold /\ KnownIsTold

LEMMA WakerHolds == WakeInv => Wakes!NoWakeLost
BY DEF WakeInv, FileIsTold, Wakes!NoWakeLost, ToBeTold, Wakes!File

LEMMA NoHookIsHook == Wakes!NoHook \in Wakes!Hook
<1>1. 0 \in 0..2 /\ 0 \in Nat
  OBVIOUS
<1>2. "none" \in Wakes!Stages /\ "Stop" \in Wakes!Events
  BY DEF Wakes!Stages, Wakes!Events
<1> QED
  BY <1>1, <1>2, Zenon DEF Wakes!NoHook, Wakes!Hook

LEMMA EngineOf ==
    ASSUME Wakes!WakerConstants, NEW h \in Hooks
    PROVE  h[1] \in WakeEngines /\ h \in Wakes!Of(h[1])
BY DEF Wakes!WakerConstants, Wakes!Of

LEMMA WakerInit == ASSUME Wakes!WakerConstants PROVE Wakes!Init => WakeInv
<1> SUFFICES ASSUME Wakes!Init PROVE WakeInv
  OBVIOUS
<1>0. PICK old \in SUBSET sent : \E old_file \in {old, None} :
        /\ seen = [e \in WakeEngines \cup {Wakes!Shared} |-> IF e = Wakes!Shared THEN old_file ELSE None]
        /\ told = [e \in WakeEngines |-> old]
  BY DEF Wakes!Init
<1>1. PICK old_file \in {old, None} :
        /\ seen = [e \in WakeEngines \cup {Wakes!Shared} |-> IF e = Wakes!Shared THEN old_file ELSE None]
        /\ told = [e \in WakeEngines |-> old]
  BY <1>0
<1>2. sent \subseteq News /\ unread \in [WakeEngines -> SUBSET News]
      /\ \A e \in WakeEngines : unread[e] \subseteq sent
  BY DEF Wakes!Init
<1>3. hook = [h \in Hooks |-> Wakes!NoHook]
  BY DEF Wakes!Init
<1>4. hook \in [Hooks -> Wakes!Hook]
  BY <1>3, NoHookIsHook
<1>5. WakeTypes
  BY <1>1, <1>2, <1>4 DEF WakeTypes
<1>6. Wakes!NoHook.found = {} /\ Wakes!NoHook.known = {} /\ Wakes!NoHook.at = "none"
  BY DEF Wakes!NoHook
<1>7. Arrived
  <2>1. \A f \in WakeEngines \cup {Wakes!Shared} : seen[f] # None => seen[f] \subseteq sent
    BY <1>1
  <2>2. \A h \in Hooks : hook[h].found = {} /\ hook[h].known = {}
    BY <1>3, <1>6
  <2> QED
    BY <1>2, <2>1, <2>2 DEF Arrived
<1>8. OldWasTold
  BY <1>0, <1>1 DEF OldWasTold
<1>9. FileIsTold
  BY <1>1 DEF FileIsTold, Wakes!WakerConstants
<1>10. KnownIsTold
  BY <1>3, <1>6 DEF KnownIsTold
<1> QED
  BY <1>5, <1>7, <1>8, <1>9, <1>10 DEF WakeInv

\* What is to be told is told, or still to be.
LEMMA ToldKept ==
    ASSUME Wakes!WakerConstants, NEW e \in WakeEngines, NEW m, ToBeTold(e, m),
           told[e] \subseteq told'[e],
           \A h \in Wakes!Of(e) : hook[h].at = "emit" =>
               \/ hook'[h].at = "emit" /\ Wakes!ToAnnounce(hook'[h]) = Wakes!ToAnnounce(hook[h])
               \/ Wakes!ToAnnounce(hook[h]) \subseteq told'[e]
    PROVE  ToBeTold(e, m)'
<1>1. CASE m \in told[e]
  BY <1>1 DEF ToBeTold
<1>2. ASSUME NEW h \in Wakes!Of(e), hook[h].at = "emit", m \in Wakes!ToAnnounce(hook[h])
      PROVE  ToBeTold(e, m)'
  <2>1. CASE Wakes!ToAnnounce(hook[h]) \subseteq told'[e]
    BY <1>2, <2>1 DEF ToBeTold
  <2>2. CASE hook'[h].at = "emit" /\ Wakes!ToAnnounce(hook'[h]) = Wakes!ToAnnounce(hook[h])
    <3>1. m \in Wakes!ToAnnounce(hook'[h])
      BY <1>2, <2>2
    <3>2. Wakes!ToAnnounce(hook[h])' = Wakes!ToAnnounce(hook'[h])
      BY DEF Wakes!ToAnnounce
    <3>3. m \in Wakes!ToAnnounce(hook[h])' /\ h \in Wakes!Of(e)'
      BY <3>1, <3>2 DEF Wakes!Of
    <3> QED
      BY <2>2, <3>3 DEF ToBeTold
  <2> QED
    BY <1>2, <2>1, <2>2
<1> QED
  BY <1>1, <1>2 DEF ToBeTold

\* A step that writes no watermark and compares none.
LEMMA NotCompared ==
    ASSUME Wakes!WakerConstants, WakeInv, seen' = seen, sent \subseteq sent',
           unread' \in [WakeEngines -> SUBSET News],
           \A e \in WakeEngines : unread'[e] \subseteq unread[e] \cup (sent' \ sent),
           told' \in [WakeEngines -> SUBSET News],
           \A e \in WakeEngines : told[e] \subseteq told'[e],
           hook' \in [Hooks -> Wakes!Hook],
           \A h \in Hooks : hook'[h].found \subseteq sent' /\ hook'[h].known \subseteq sent',
           \A h \in Hooks : hook'[h].at = "save" =>
               hook[h].at = "save" /\ hook'[h].known = hook[h].known,
           \A h \in Hooks : hook[h].at = "emit" =>
               \/ hook'[h].at = "emit" /\ Wakes!ToAnnounce(hook'[h]) = Wakes!ToAnnounce(hook[h])
               \/ Wakes!ToAnnounce(hook[h]) \subseteq told'[h[1]]
    PROVE  WakeInv'
<1>1. WakeTypes'
  BY DEF WakeInv, WakeTypes
<1>2. Arrived'
  BY DEF WakeInv, Arrived, WakeTypes
<1>3. OldWasTold'
  BY DEF WakeInv, OldWasTold
<1>4. ASSUME NEW e \in WakeEngines, NEW m, ToBeTold(e, m) PROVE ToBeTold(e, m)'
  BY <1>4, ToldKept DEF Wakes!Of
<1>5. FileIsTold'
  BY <1>4 DEF WakeInv, FileIsTold, Arrived
<1>6. KnownIsTold'
  <2> SUFFICES ASSUME NEW h \in Hooks, hook'[h].at = "save",
                      NEW m \in hook'[h].known \cap unread'[h[1]]
               PROVE  ToBeTold(h[1], m)'
    BY DEF KnownIsTold
  <2>1. h[1] \in WakeEngines /\ m \in hook[h].known /\ hook[h].at = "save"
    BY EngineOf
  <2>2. m \in sent /\ m \in unread[h[1]]
    BY <2>1 DEF WakeInv, Arrived
  <2> QED
    BY <1>4, <2>1, <2>2 DEF WakeInv, KnownIsTold
<1> QED
  BY <1>1, <1>2, <1>3, <1>5, <1>6 DEF WakeInv

LEMMA OneHook ==
    ASSUME Wakes!WakerConstants, WakeInv, UNCHANGED <<unread, sent, seen>>,
           NEW h \in Hooks, NEW r \in Wakes!Hook, hook' = [hook EXCEPT ![h] = r],
           r.found \subseteq sent, r.known \subseteq sent, r.at # "save",
           told' \in [WakeEngines -> SUBSET News],
           \A e \in WakeEngines : told[e] \subseteq told'[e],
           hook[h].at = "emit" => Wakes!ToAnnounce(hook[h]) \subseteq told'[h[1]]
    PROVE  WakeInv'
<1>1. hook \in [Hooks -> Wakes!Hook] /\ unread \in [WakeEngines -> SUBSET News]
  BY DEF WakeInv, WakeTypes
<1>2. /\ hook' \in [Hooks -> Wakes!Hook] /\ hook'[h] = r
      /\ \A g \in Hooks \ {h} : hook'[g] = hook[g]
  BY <1>1
<1>3. \A g \in Hooks : hook'[g].found \subseteq sent' /\ hook'[g].known \subseteq sent'
  BY <1>2 DEF WakeInv, Arrived
<1>4. \A g \in Hooks : hook'[g].at = "save" => hook[g].at = "save" /\ hook'[g].known = hook[g].known
  BY <1>2
<1>5. \A g \in Hooks : hook[g].at = "emit" =>
         \/ hook'[g].at = "emit" /\ Wakes!ToAnnounce(hook'[g]) = Wakes!ToAnnounce(hook[g])
         \/ Wakes!ToAnnounce(hook[g]) \subseteq told'[g[1]]
  BY <1>2
<1> QED
  BY <1>1, <1>2, <1>3, <1>4, <1>5, NotCompared

LEMMA HookAt ==
    ASSUME NEW p \in Wakes!Hook, NEW at \in Wakes!Stages
    PROVE  LET r == [p EXCEPT !.at = at]
           IN  r \in Wakes!Hook /\ r.at = at /\ r.found = p.found /\ r.known = p.known
BY Zenon DEF Wakes!Hook

LEMMA HookCleared ==
    ASSUME NEW p \in Wakes!Hook
    PROVE  LET r == [p EXCEPT !.found = {}, !.known = {}]
           IN  /\ r \in Wakes!Hook /\ r.at = p.at /\ r.found = {} /\ r.known = {} /\ r.wait = p.wait
               /\ r.slept = p.slept /\ r.rearm = p.rearm
<1>1. {} \in SUBSET News
  OBVIOUS
<1> QED
  BY <1>1, Zenon DEF Wakes!Hook

LEMMA SweptHook ==
    ASSUME NEW p \in Wakes!Hook, p.tries < 2
    PROVE  LET r == [p EXCEPT !.at = "sweep", !.tries = @ + 1]
           IN  r \in Wakes!Hook /\ r.at = "sweep" /\ r.found = p.found /\ r.known = p.known
<1>1. p.tries + 1 \in 0..2 /\ "sweep" \in Wakes!Stages
  BY DEF Wakes!Hook, Wakes!Stages
<1> QED
  BY <1>1, Zenon DEF Wakes!Hook

LEMMA LeavingHook ==
    ASSUME NEW p \in Wakes!Hook, NEW code \in {0, 2}
    PROVE  LET r == Wakes!Leaving(p, code)
           IN  r \in Wakes!Hook /\ r.at = "leave" /\ r.found = {} /\ r.known = {}
<1>1. p.wait \in BOOLEAN /\ "leave" \in Wakes!Stages
  BY Zenon DEF Wakes!Hook, Wakes!Stages
<1>2. 0 \in 0..2 /\ 0 \in Nat
  OBVIOUS
<1>3. "Stop" \in Wakes!Events
  BY DEF Wakes!Events
<1> QED
  BY <1>1, <1>2, <1>3, Zenon DEF Wakes!Leaving, Wakes!NoHook, Wakes!Hook

LEMMA SettlingHook ==
    ASSUME Wakes!WakerConstants, NEW p \in Wakes!Hook
    PROVE  LET r == [p EXCEPT !.at = "settle", !.nap = SettleTime, !.rearm = TRUE]
           IN  r \in Wakes!Hook /\ r.at = "settle" /\ r.found = p.found /\ r.known = p.known
<1>1. SettleTime \in Nat /\ "settle" \in Wakes!Stages
  BY DEF Wakes!WakerConstants, Wakes!Stages
<1> QED
  BY <1>1, Zenon DEF Wakes!Hook

LEMMA SleepingHook ==
    ASSUME Wakes!WakerConstants, NEW p \in Wakes!Hook, ~(p.slept >= WaitTimeout)
    PROVE  LET r == [p EXCEPT !.at = "asleep", !.nap = Wakes!Interval(p)]
           IN  r \in Wakes!Hook /\ r.at = "asleep" /\ r.found = p.found /\ r.known = p.known
<1>1. p.slept \in Nat
  BY DEF Wakes!Hook
<1>2. Wakes!Interval(p) \in Nat /\ "asleep" \in Wakes!Stages
  BY <1>1 DEF Wakes!WakerConstants, Wakes!Stages, Wakes!Interval, Wakes!Least
<1> QED
  BY <1>2, Zenon DEF Wakes!Hook

LEMMA SilentHook ==
    ASSUME Wakes!WakerConstants, NEW p \in Wakes!Hook, p.found \subseteq sent,
           p.known \subseteq sent
    PROVE  LET r == Wakes!AfterSilence(p)
           IN  /\ r \in Wakes!Hook /\ r.at \in {"none", "leave", "settle", "asleep"}
               /\ r.found \subseteq sent /\ r.known \subseteq sent
<1>1. CASE ~p.wait
  <2>1. Wakes!AfterSilence(p) = Wakes!NoHook
    BY <1>1 DEF Wakes!AfterSilence
  <2>2. Wakes!NoHook.at = "none" /\ Wakes!NoHook.found = {} /\ Wakes!NoHook.known = {}
    BY DEF Wakes!NoHook
  <2> QED
    BY <2>1, <2>2, NoHookIsHook
<1>2. CASE p.wait /\ p.rearm
  <2>1. Wakes!AfterSilence(p) = Wakes!Leaving(p, 2)
    BY <1>2 DEF Wakes!AfterSilence
  <2> QED
    BY <2>1, LeavingHook
<1>3. CASE p.wait /\ ~p.rearm /\ p.slept >= WaitTimeout
  <2>1. Wakes!AfterSilence(p) = [p EXCEPT !.at = "settle", !.nap = SettleTime, !.rearm = TRUE]
    BY <1>3 DEF Wakes!AfterSilence
  <2> QED
    BY <2>1, SettlingHook
<1>4. CASE p.wait /\ ~p.rearm /\ ~(p.slept >= WaitTimeout)
  <2>1. Wakes!AfterSilence(p) = [p EXCEPT !.at = "asleep", !.nap = Wakes!Interval(p)]
    BY <1>4 DEF Wakes!AfterSilence
  <2> QED
    BY <1>4, <2>1, SleepingHook
<1> QED
  BY <1>1, <1>2, <1>3, <1>4

LEMMA OfHooks ==
    ASSUME WakeInv, NEW h \in Hooks
    PROVE  hook[h] \in Wakes!Hook /\ hook[h].found \subseteq sent /\ hook[h].known \subseteq sent
BY DEF WakeInv, WakeTypes, Arrived

LEMMA ToldSame ==
    ASSUME WakeInv, told' = told
    PROVE  told' \in [WakeEngines -> SUBSET News] /\ \A e \in WakeEngines : told[e] \subseteq told'[e]
BY DEF WakeInv, WakeTypes

LEMMA RunKeeps ==
    ASSUME Wakes!WakerConstants, WakeInv, NEW e \in WakeEngines, NEW event \in Wakes!Events,
           Wakes!Run(e, event),
           UNCHANGED <<unread, sent, seen, told>>
    PROVE  WakeInv'
<1>1. PICK h \in Wakes!Of(e) : /\ hook[h].at = "none"
        /\ hook' = [hook EXCEPT ![h] =
               [Wakes!NoHook EXCEPT !.at = IF event = "Stop" /\ e \in Wakeful THEN "claim" ELSE "fetch",
                              !.event = event, !.wait = event = "Stop" /\ e \in Wakeful]]
  BY DEF Wakes!Run
<1>2. h \in Hooks
  BY DEF Wakes!Of
<1>3. PICK at : at = IF event = "Stop" /\ e \in Wakeful THEN "claim" ELSE "fetch"
  OBVIOUS
<1> DEFINE r == [Wakes!NoHook EXCEPT !.at = at, !.event = event, !.wait = event = "Stop" /\ e \in Wakeful]
<1>4. at \in Wakes!Stages /\ at # "save"
  BY <1>3 DEF Wakes!Stages
<1>5. r \in Wakes!Hook /\ r.found = {} /\ r.known = {} /\ r.at = at
  BY <1>4, NoHookIsHook, Zenon DEF Wakes!Hook, Wakes!NoHook
<1>6. hook' = [hook EXCEPT ![h] = r]
  BY <1>1, <1>3
<1> HIDE DEF r
<1> QED
  BY <1>1, <1>2, <1>4, <1>5, <1>6, OneHook, ToldSame

LEMMA ClaimKeeps ==
    ASSUME Wakes!WakerConstants, WakeInv, NEW h \in Hooks, Wakes!Claim(h)
    PROVE  WakeInv'
<1>1. hook[h].at = "claim" /\ UNCHANGED <<unread, sent, seen, told>>
  BY DEF Wakes!Claim
<1>2. CASE hook' = [hook EXCEPT ![h].at = "sign"]
  <2>1. hook' = [hook EXCEPT ![h] = [hook[h] EXCEPT !.at = "sign"]] /\ "sign" \in Wakes!Stages
    BY <1>2 DEF Wakes!Stages
  <2>2. PICK r : r = [hook[h] EXCEPT !.at = "sign"]
    OBVIOUS
  <2>3. r \in Wakes!Hook /\ r.at = "sign" /\ r.found = hook[h].found /\ r.known = hook[h].known
    BY <2>1, <2>2, HookAt, OfHooks
  <2> QED
    BY <1>1, <2>1, <2>2, <2>3, OneHook, OfHooks, ToldSame
<1>3. CASE hook' = [hook EXCEPT ![h] = Wakes!NoHook]
  <2>1. Wakes!NoHook.at = "none" /\ Wakes!NoHook.found = {} /\ Wakes!NoHook.known = {}
    BY DEF Wakes!NoHook
  <2> QED
    BY <1>1, <1>3, <2>1, NoHookIsHook, OneHook, ToldSame
<1>4. CASE hook[h].tries < 2 /\ hook' = [hook EXCEPT ![h] = [hook[h] EXCEPT !.at = "sweep", !.tries = @ + 1]]
  <2>2. PICK r : r = [hook[h] EXCEPT !.at = "sweep", !.tries = @ + 1]
    OBVIOUS
  <2>3. r \in Wakes!Hook /\ r.at = "sweep" /\ r.found = hook[h].found /\ r.known = hook[h].known
    BY <1>4, <2>2, SweptHook, OfHooks
  <2> QED
    BY <1>1, <1>4, <2>2, <2>3, OneHook, OfHooks, ToldSame
<1> QED
  BY <1>2, <1>3, <1>4 DEF Wakes!Claim

LEMMA SweepKeeps ==
    ASSUME Wakes!WakerConstants, WakeInv, NEW h \in Hooks, Wakes!Sweep(h)
    PROVE  WakeInv'
<1>1. hook[h].at = "sweep" /\ UNCHANGED <<unread, sent, seen, told>> /\ "claim" \in Wakes!Stages
      /\ hook' = [hook EXCEPT ![h] = [hook[h] EXCEPT !.at = "claim"]]
  BY DEF Wakes!Sweep, Wakes!Stages
<1>2. PICK r : r = [hook[h] EXCEPT !.at = "claim"]
  OBVIOUS
<1>3. r \in Wakes!Hook /\ r.at = "claim" /\ r.found = hook[h].found /\ r.known = hook[h].known
  BY <1>1, <1>2, HookAt, OfHooks
<1> QED
  BY <1>1, <1>2, <1>3, OneHook, OfHooks, ToldSame

LEMMA SignKeeps ==
    ASSUME Wakes!WakerConstants, WakeInv, NEW h \in Hooks, Wakes!Sign(h)
    PROVE  WakeInv'
<1>1. hook[h].at = "sign" /\ UNCHANGED <<unread, sent, seen, told>>
      /\ hook' = [hook EXCEPT ![h] = [hook[h] EXCEPT !.at = "fetch", !.tries = 0]]
  BY DEF Wakes!Sign
<1>2. PICK r : r = [hook[h] EXCEPT !.at = "fetch", !.tries = 0]
  OBVIOUS
<1>3. r \in Wakes!Hook /\ r.at = "fetch" /\ r.found = hook[h].found /\ r.known = hook[h].known
  <2>1. "fetch" \in Wakes!Stages /\ 0 \in 0..2
    BY DEF Wakes!Stages
  <2> QED
    BY <1>2, <2>1, OfHooks, Zenon DEF Wakes!Hook
<1> QED
  BY <1>1, <1>2, <1>3, OneHook, OfHooks, ToldSame

LEMMA FetchKeeps ==
    ASSUME Wakes!WakerConstants, WakeInv, NEW h \in Hooks, Wakes!Fetch(h)
    PROVE  WakeInv'
<1>1. hook[h].at = "fetch" /\ UNCHANGED <<unread, sent, seen, told>>
      /\ hook' = [hook EXCEPT ![h] = [hook[h] EXCEPT !.at = "load", !.found = unread[h[1]]]]
  BY DEF Wakes!Fetch
<1>2. PICK r : r = [hook[h] EXCEPT !.at = "load", !.found = unread[h[1]]]
  OBVIOUS
<1>3. unread[h[1]] \in SUBSET News /\ unread[h[1]] \subseteq sent
  BY EngineOf DEF WakeInv, WakeTypes, Arrived
<1>4. r \in Wakes!Hook /\ r.at = "load" /\ r.found = unread[h[1]] /\ r.known = hook[h].known
  <2>1. "load" \in Wakes!Stages
    BY DEF Wakes!Stages
  <2> QED
    BY <1>2, <1>3, <2>1, OfHooks, Zenon DEF Wakes!Hook
<1> QED
  BY <1>1, <1>2, <1>3, <1>4, OneHook, OfHooks, ToldSame

LEMMA EmitKeeps ==
    ASSUME Wakes!WakerConstants, WakeInv, NEW h \in Hooks, Wakes!Emit(h)
    PROVE  WakeInv'
<1>1. PICK p, e, new : p = hook[h] /\ e = h[1] /\ new = Wakes!ToAnnounce(p)
  OBVIOUS
<1>2. p \in Wakes!Hook /\ p.found \subseteq sent /\ e \in WakeEngines
  BY <1>1, OfHooks, EngineOf
<1>3. new \subseteq News
  BY <1>1, <1>2 DEF Wakes!ToAnnounce, Wakes!Hook
<1>4. /\ p.at = "emit" /\ told' = [told EXCEPT ![e] = @ \cup new]
      /\ hook' = [hook EXCEPT ![h] =
            IF new # {} /\ p.event = "Stop" THEN Wakes!Leaving(p, 2)
            ELSE Wakes!AfterSilence([p EXCEPT !.found = {}, !.known = {}])]
      /\ UNCHANGED <<unread, sent, seen>>
  BY <1>1 DEF Wakes!Emit
<1>5. /\ told' \in [WakeEngines -> SUBSET News]
      /\ \A f \in WakeEngines : told[f] \subseteq told'[f]
      /\ new \subseteq told'[e]
  BY <1>2, <1>3, <1>4 DEF WakeInv, WakeTypes
<1>6. PICK r : r = IF new # {} /\ p.event = "Stop" THEN Wakes!Leaving(p, 2)
                   ELSE Wakes!AfterSilence([p EXCEPT !.found = {}, !.known = {}])
  OBVIOUS
<1>7. r \in Wakes!Hook /\ r.at # "save" /\ r.found \subseteq sent /\ r.known \subseteq sent
  <2>1. CASE r = Wakes!Leaving(p, 2)
    BY <1>2, <2>1, LeavingHook
  <2>2. CASE r = Wakes!AfterSilence([p EXCEPT !.found = {}, !.known = {}])
    <3>1. PICK c : c = [p EXCEPT !.found = {}, !.known = {}]
      OBVIOUS
    <3>2. c \in Wakes!Hook /\ c.found \subseteq sent /\ c.known \subseteq sent
      BY <1>2, <3>1, HookCleared
    <3> QED
      BY <2>2, <3>1, <3>2, SilentHook
  <2> QED
    BY <1>6, <2>1, <2>2
<1>8. hook' = [hook EXCEPT ![h] = r]
  BY <1>4, <1>6
<1> QED
  BY <1>1, <1>4, <1>5, <1>7, <1>8, OneHook

LEMMA FailKeeps ==
    ASSUME Wakes!WakerConstants, WakeInv, NEW h \in Hooks, Wakes!Fail(h)
    PROVE  WakeInv'
<1>1. hook[h].at = "fetch" /\ UNCHANGED <<unread, sent, seen, told>>
      /\ hook' = [hook EXCEPT ![h] = IF hook[h].rearm THEN Wakes!Leaving(hook[h], 0) ELSE Wakes!AfterSilence(hook[h])]
  BY DEF Wakes!Fail
<1>2. PICK r : r = IF hook[h].rearm THEN Wakes!Leaving(hook[h], 0) ELSE Wakes!AfterSilence(hook[h])
  OBVIOUS
<1>3. r \in Wakes!Hook /\ r.at # "save" /\ r.found \subseteq sent /\ r.known \subseteq sent
  <2>1. CASE r = Wakes!Leaving(hook[h], 0)
    BY <2>1, LeavingHook, OfHooks
  <2>2. CASE r = Wakes!AfterSilence(hook[h])
    BY <2>2, SilentHook, OfHooks
  <2> QED
    BY <1>2, <2>1, <2>2
<1> QED
  BY <1>1, <1>2, <1>3, OneHook, ToldSame

LEMMA LeaveKeeps ==
    ASSUME Wakes!WakerConstants, WakeInv, NEW h \in Hooks, Wakes!Leave(h)
    PROVE  WakeInv'
<1>1. hook[h].at = "leave" /\ UNCHANGED <<unread, sent, seen, told>>
      /\ hook' = [hook EXCEPT ![h] = Wakes!NoHook]
  BY DEF Wakes!Leave
<1>2. Wakes!NoHook.at = "none" /\ Wakes!NoHook.found = {} /\ Wakes!NoHook.known = {}
  BY DEF Wakes!NoHook
<1> QED
  BY <1>1, <1>2, NoHookIsHook, OneHook, ToldSame

LEMMA WakeKeeps ==
    ASSUME Wakes!WakerConstants, WakeInv, NEW h \in Hooks, Wakes!Wake(h)
    PROVE  WakeInv'
<1>1. PICK p : p = hook[h]
  OBVIOUS
<1>2. p \in Wakes!Hook /\ p.found \subseteq sent /\ p.known \subseteq sent
  BY <1>1, OfHooks
<1>3. p.at \in {"asleep", "settle"} /\ UNCHANGED <<unread, sent, seen, told>>
  BY <1>1 DEF Wakes!Wake
<1>4. p.slept + p.nap \in Nat /\ 0 \in Nat /\ "fetch" \in Wakes!Stages /\ "fetch" # "save"
  BY <1>2 DEF Wakes!Hook, Wakes!Stages
<1>5. PICK r : hook' = [hook EXCEPT ![h] = r]
               /\ \/ r = [p EXCEPT !.at = "fetch", !.slept = @ + p.nap, !.nap = 0]
                  \/ r = [p EXCEPT !.at = "fetch", !.nap = 0, !.flag = FALSE]
  BY <1>1 DEF Wakes!Wake
<1>6. r \in Wakes!Hook /\ r.at = "fetch" /\ r.found = p.found /\ r.known = p.known
  <2>1. CASE r = [p EXCEPT !.at = "fetch", !.slept = @ + p.nap, !.nap = 0]
    BY <1>2, <1>4, <2>1, Zenon DEF Wakes!Hook
  <2>2. CASE r = [p EXCEPT !.at = "fetch", !.nap = 0, !.flag = FALSE]
    BY <1>2, <1>4, <2>2, Zenon DEF Wakes!Hook
  <2> QED
    BY <1>5, <2>1, <2>2
<1> QED
  BY <1>1, <1>2, <1>3, <1>5, <1>6, OneHook, ToldSame

LEMMA StreamKeeps ==
    ASSUME Wakes!WakerConstants, WakeInv, NEW h \in Hooks, Wakes!Stream(h)
    PROVE  WakeInv'
<1>1. PICK held \in {"no", "yes", "never"} : hook' = [hook EXCEPT ![h] = [hook[h] EXCEPT !.held = held]]
  BY DEF Wakes!Stream
<1>2. hook[h].at = "asleep" /\ UNCHANGED <<unread, sent, seen, told>>
  BY DEF Wakes!Stream
<1>3. PICK r : r = [hook[h] EXCEPT !.held = held]
  OBVIOUS
<1>4. r \in Wakes!Hook /\ r.at = "asleep" /\ r.found = hook[h].found /\ r.known = hook[h].known
  BY <1>2, <1>3, OfHooks, Zenon DEF Wakes!Hook
<1> QED
  BY <1>1, <1>2, <1>3, <1>4, OneHook, OfHooks, ToldSame

LEMMA KilledKeeps ==
    ASSUME Wakes!WakerConstants, WakeInv, NEW hs \in SUBSET Hooks, Wakes!Killed(hs),
           UNCHANGED <<unread, sent, seen>>
    PROVE  WakeInv'
<1>1. /\ hook' = [h \in Hooks |-> IF h \in hs THEN Wakes!NoHook ELSE hook[h]]
      /\ told' = [e \in WakeEngines |-> told[e] \cup UNION {
            IF hook[h].at = "emit" THEN Wakes!ToAnnounce(hook[h]) ELSE {} : h \in hs \cap Wakes!Of(e)}]
  BY DEF Wakes!Killed
<1>2. \A h \in Hooks : hook[h] \in Wakes!Hook
  BY OfHooks
<1>3. hook' \in [Hooks -> Wakes!Hook]
  BY <1>1, <1>2, NoHookIsHook
<1>4. \A h \in Hooks : Wakes!ToAnnounce(hook[h]) \subseteq News
  BY <1>2 DEF Wakes!ToAnnounce, Wakes!Hook
<1>5. told' \in [WakeEngines -> SUBSET News]
  <2>1. ASSUME NEW e \in WakeEngines
        PROVE  UNION {IF hook[h].at = "emit" THEN Wakes!ToAnnounce(hook[h]) ELSE {} : h \in hs \cap Wakes!Of(e)}
                   \subseteq News
    BY <1>4 DEF Wakes!Of
  <2>2. told \in [WakeEngines -> SUBSET News]
    BY DEF WakeInv, WakeTypes
  <2> QED
    BY <1>1, <2>1, <2>2
<1>6. \A e \in WakeEngines : told[e] \subseteq told'[e]
  BY <1>1
<1>7. Wakes!NoHook.at = "none" /\ Wakes!NoHook.found = {} /\ Wakes!NoHook.known = {}
  BY DEF Wakes!NoHook
<1>8. \A h \in Hooks : hook'[h].found \subseteq sent' /\ hook'[h].known \subseteq sent'
  BY <1>1, <1>7, OfHooks
<1>9. \A h \in Hooks : hook'[h].at = "save" => hook[h].at = "save" /\ hook'[h].known = hook[h].known
  BY <1>1, <1>7
<1>10. ASSUME NEW h \in Hooks, hook[h].at = "emit"
       PROVE  \/ hook'[h].at = "emit" /\ Wakes!ToAnnounce(hook'[h]) = Wakes!ToAnnounce(hook[h])
              \/ Wakes!ToAnnounce(hook[h]) \subseteq told'[h[1]]
  <2>1. CASE h \notin hs
    BY <1>1, <1>10, <2>1
  <2>2. CASE h \in hs
    <3>1. h[1] \in WakeEngines /\ h \in hs \cap Wakes!Of(h[1])
      BY <2>2, EngineOf
    <3> QED
      BY <1>1, <1>10, <3>1
  <2> QED
    BY <2>1, <2>2
<1>11. unread \in [WakeEngines -> SUBSET News]
  BY DEF WakeInv, WakeTypes
<1> QED
  BY <1>3, <1>5, <1>6, <1>8, <1>9, <1>10, <1>11, NotCompared

LEMMA ArriveKeeps ==
    ASSUME Wakes!WakerConstants, WakeInv, NEW m \in News, NEW es \in SUBSET WakeEngines,
           Wakes!Arrive(m, es)
    PROVE  WakeInv'
<1>1. PICK roused \in SUBSET Hooks :
        hook' = [h \in Hooks |-> IF h \in roused THEN [hook[h] EXCEPT !.flag = TRUE] ELSE hook[h]]
  BY DEF Wakes!Arrive
<1>2. /\ m \notin sent /\ sent' = sent \cup {m} /\ UNCHANGED <<seen, told>>
      /\ unread' = [e \in WakeEngines |-> IF e \in es THEN unread[e] \cup {m} ELSE unread[e]]
  BY DEF Wakes!Arrive
<1>3. unread' \in [WakeEngines -> SUBSET News]
      /\ \A e \in WakeEngines : unread'[e] \subseteq unread[e] \cup (sent' \ sent)
  BY <1>2 DEF WakeInv, WakeTypes
<1>4. ASSUME NEW h \in Hooks
      PROVE  /\ hook'[h] \in Wakes!Hook
             /\ hook'[h].at = hook[h].at
             /\ hook'[h].event = hook[h].event
             /\ hook'[h].found = hook[h].found /\ hook'[h].known = hook[h].known
  <2>1. hook[h] \in Wakes!Hook
    BY OfHooks
  <2>2. LET r == [hook[h] EXCEPT !.flag = TRUE]
        IN /\ r \in Wakes!Hook /\ r.at = hook[h].at /\ r.event = hook[h].event
           /\ r.found = hook[h].found /\ r.known = hook[h].known
    BY <2>1, Zenon DEF Wakes!Hook
  <2> QED
    BY <1>1, <2>1, <2>2
<1>5. hook' \in [Hooks -> Wakes!Hook]
  BY <1>1, <1>4
<1>6. \A h \in Hooks : Wakes!ToAnnounce(hook'[h]) = Wakes!ToAnnounce(hook[h])
  BY <1>4 DEF Wakes!ToAnnounce
<1>7. \A h \in Hooks : hook'[h].found \subseteq sent' /\ hook'[h].known \subseteq sent'
  BY <1>2, <1>4, OfHooks
<1> QED
  BY <1>2, <1>3, <1>4, <1>5, <1>6, <1>7, ToldSame, NotCompared

LEMMA HooksStay ==
    ASSUME Wakes!WakerConstants, WakeInv, UNCHANGED <<sent, seen, hook, told>>,
           unread' \in [WakeEngines -> SUBSET News],
           \A e \in WakeEngines : unread'[e] \subseteq unread[e]
    PROVE  WakeInv'
<1>1. hook \in [Hooks -> Wakes!Hook]
  BY DEF WakeInv, WakeTypes
<1> QED
  BY <1>1, OfHooks, ToldSame, NotCompared

LEMMA ReadKeeps ==
    ASSUME Wakes!WakerConstants, WakeInv, NEW e \in WakeEngines, NEW m, Wakes!Read(e, m)
    PROVE  WakeInv'
<1>1. unread' \in [WakeEngines -> SUBSET News] /\ \A f \in WakeEngines : unread'[f] \subseteq unread[f]
  BY DEF Wakes!Read, WakeInv, WakeTypes
<1> QED
  BY <1>1, HooksStay DEF Wakes!Read

LEMMA LoadKeeps ==
    ASSUME Wakes!WakerConstants, WakeInv, NEW h \in Hooks, Wakes!Load(h)
    PROVE  WakeInv'
<1>1. PICK e, known : e = h[1] /\ known = Wakes!Seen(e)
  OBVIOUS
<1>2. e \in WakeEngines /\ hook \in [Hooks -> Wakes!Hook]
  BY <1>1, EngineOf DEF WakeInv, WakeTypes
<1>3. known \subseteq News /\ known \subseteq sent
  <2>1. /\ seen[e] # None => seen[e] \subseteq News /\ seen[e] \subseteq sent
        /\ seen[Wakes!Shared] # None => seen[Wakes!Shared] \subseteq News /\ seen[Wakes!Shared] \subseteq sent
    BY <1>2 DEF WakeInv, WakeTypes, Arrived
  <2> QED
    BY <1>1, <2>1 DEF Wakes!Seen, Wakes!File
<1>4. \A m \in known \cap unread[e] : ToBeTold(e, m)
  BY <1>1, <1>2 DEF Wakes!Seen, Wakes!File, WakeInv, FileIsTold, OldWasTold, ToBeTold
<1>5. PICK r : r = [hook[h] EXCEPT !.at = "save", !.known = known]
  OBVIOUS
<1>6. /\ hook[h].at = "load" /\ hook' = [hook EXCEPT ![h] = r]
      /\ UNCHANGED <<unread, sent, seen, told>>
  BY <1>1, <1>5 DEF Wakes!Load
<1>7. r \in Wakes!Hook /\ r.at = "save" /\ r.known = known /\ r.found = hook[h].found
  <2>1. "save" \in Wakes!Stages
    BY DEF Wakes!Stages
  <2> QED
    BY <1>3, <1>5, <2>1, OfHooks, Zenon DEF Wakes!Hook
<1>8. hook' \in [Hooks -> Wakes!Hook] /\ hook'[h] = r /\ \A g \in Hooks \ {h} : hook'[g] = hook[g]
  BY <1>2, <1>6, <1>7
<1>9. \A g \in Hooks : hook[g].at = "emit" => hook'[g] = hook[g]
  BY <1>6, <1>8
<1>10. ASSUME NEW f \in WakeEngines, NEW m, ToBeTold(f, m) PROVE ToBeTold(f, m)'
  <2>1. told[f] \subseteq told'[f]
    BY <1>6
  <2>2. \A g \in Wakes!Of(f) : hook[g].at = "emit" =>
            hook'[g].at = "emit" /\ Wakes!ToAnnounce(hook'[g]) = Wakes!ToAnnounce(hook[g])
    BY <1>9 DEF Wakes!Of
  <2> QED
    BY <1>10, <2>1, <2>2, ToldKept
<1>11. WakeTypes' /\ OldWasTold'
  BY <1>6, <1>8 DEF WakeInv, WakeTypes, OldWasTold
<1>12. Arrived'
  <2>1. \A g \in Hooks : hook'[g].found \subseteq sent' /\ hook'[g].known \subseteq sent'
    BY <1>3, <1>6, <1>7, <1>8, OfHooks
  <2> QED
    BY <1>6, <2>1 DEF WakeInv, Arrived
<1>13. FileIsTold'
  BY <1>6, <1>10 DEF WakeInv, FileIsTold
<1>14. KnownIsTold'
  <2> SUFFICES ASSUME NEW g \in Hooks, hook'[g].at = "save", NEW m \in hook'[g].known \cap unread[g[1]]
               PROVE  ToBeTold(g[1], m)'
    BY <1>6 DEF KnownIsTold
  <2>1. g[1] \in WakeEngines
    BY EngineOf
  <2>2. CASE g = h
    BY <1>1, <1>4, <1>7, <1>8, <1>10, <2>1, <2>2
  <2>3. CASE g # h
    BY <1>8, <1>10, <2>1, <2>3 DEF WakeInv, KnownIsTold
  <2> QED
    BY <2>2, <2>3
<1> QED
  BY <1>11, <1>12, <1>13, <1>14 DEF WakeInv

LEMMA SaveKeeps ==
    ASSUME Wakes!WakerConstants, WakeInv, NEW h \in Hooks, Wakes!Save(h)
    PROVE  WakeInv'
<1>1. PICK e, p : e = h[1] /\ p = hook[h]
  OBVIOUS
<1>2. e \in WakeEngines /\ hook \in [Hooks -> Wakes!Hook] /\ h \in Wakes!Of(e) /\ Wakes!Shared # e
  BY <1>1, EngineOf DEF WakeInv, WakeTypes, Wakes!WakerConstants
<1>3. PICK r : r = [p EXCEPT !.at = "emit"]
  OBVIOUS
<1>4. /\ p.at = "save" /\ hook' = [hook EXCEPT ![h] = r] /\ seen' = [seen EXCEPT ![e] = p.found]
      /\ UNCHANGED <<unread, sent, told>>
  BY <1>1, <1>3 DEF Wakes!Save, Wakes!File
<1>5. /\ r \in Wakes!Hook
      /\ r.at = "emit"
      /\ r.known = p.known
      /\ r.found = p.found
      /\ r.event = p.event
  <2>1. "emit" \in Wakes!Stages /\ p \in Wakes!Hook
    BY <1>1, OfHooks DEF Wakes!Stages
  <2> QED
    BY <1>3, <2>1, Zenon DEF Wakes!Hook
<1>6. hook' \in [Hooks -> Wakes!Hook] /\ hook'[h] = r /\ \A g \in Hooks \ {h} : hook'[g] = hook[g]
  BY <1>2, <1>4, <1>5
<1>7. p.found \in SUBSET News /\ p.found \subseteq sent
  BY <1>1, OfHooks DEF Wakes!Hook
<1>8. /\ seen' \in [WakeEngines \cup {Wakes!Shared} -> (SUBSET News) \cup {None}] /\ seen'[e] = p.found
      /\ \A f \in (WakeEngines \cup {Wakes!Shared}) \ {e} : seen'[f] = seen[f]
  BY <1>2, <1>4, <1>7 DEF WakeInv, WakeTypes
<1>9. \A g \in Hooks : hook[g].at = "emit" => hook'[g] = hook[g]
  BY <1>1, <1>4, <1>6
<1>10. ASSUME NEW f \in WakeEngines, NEW m, ToBeTold(f, m) PROVE ToBeTold(f, m)'
  <2>1. told[f] \subseteq told'[f]
    BY <1>4
  <2>2. \A g \in Wakes!Of(f) : hook[g].at = "emit" =>
            hook'[g].at = "emit" /\ Wakes!ToAnnounce(hook'[g]) = Wakes!ToAnnounce(hook[g])
    BY <1>9 DEF Wakes!Of
  <2> QED
    BY <1>10, <2>1, <2>2, ToldKept
<1>11. WakeTypes' /\ OldWasTold'
  BY <1>2, <1>4, <1>6, <1>8 DEF WakeInv, WakeTypes, OldWasTold
<1>12. Arrived'
  <2>1. \A g \in Hooks : hook'[g].found \subseteq sent' /\ hook'[g].known \subseteq sent'
    BY <1>1, <1>4, <1>5, <1>6, OfHooks
  <2> QED
    BY <1>4, <1>7, <1>8, <2>1 DEF WakeInv, Arrived
<1>13. FileIsTold'
  <2> SUFFICES ASSUME NEW f \in WakeEngines, seen'[f] # None, NEW m \in seen'[f] \cap unread[f]
               PROVE  ToBeTold(f, m)'
    BY <1>4 DEF FileIsTold
  <2>1. CASE f # e
    BY <1>8, <1>10, <2>1 DEF WakeInv, FileIsTold
  <2>2. CASE f = e /\ m \in Wakes!ToAnnounce(r)
    <3>1. Wakes!ToAnnounce(hook[h])' = Wakes!ToAnnounce(r)
      BY <1>6 DEF Wakes!ToAnnounce
    <3>2. m \in Wakes!ToAnnounce(hook[h])' /\ hook'[h].at = "emit" /\ h \in Wakes!Of(e)'
      BY <1>2, <1>5, <1>6, <2>2, <3>1 DEF Wakes!Of
    <3> QED
      BY <2>2, <3>2 DEF ToBeTold
  <2>3. CASE f = e /\ m \notin Wakes!ToAnnounce(r)
    <3>1. m \in p.known
      BY <1>5, <1>8, <2>3 DEF Wakes!ToAnnounce
    <3>2. ToBeTold(e, m)
      BY <1>1, <1>4, <2>3, <3>1 DEF WakeInv, KnownIsTold
    <3> QED
      BY <1>10, <2>3, <3>2
  <2> QED
    BY <2>1, <2>2, <2>3
<1>14. KnownIsTold'
  <2> SUFFICES ASSUME NEW g \in Hooks, hook'[g].at = "save", NEW m \in hook'[g].known \cap unread[g[1]]
               PROVE  ToBeTold(g[1], m)'
    BY <1>4 DEF KnownIsTold
  <2>1. g[1] \in WakeEngines
    BY EngineOf
  <2>2. g # h
    BY <1>5, <1>6
  <2> QED
    BY <1>6, <1>10, <2>1, <2>2 DEF WakeInv, KnownIsTold
<1> QED
  BY <1>11, <1>12, <1>13, <1>14 DEF WakeInv

LEMMA WakerNext ==
    ASSUME Wakes!WakerConstants, WakeInv, [Wakes!Next]_(Wakes!vars)
    PROVE  WakeInv'
<1>1. CASE UNCHANGED Wakes!vars
  <2>1. unread \in [WakeEngines -> SUBSET News]
    BY DEF WakeInv, WakeTypes
  <2> QED
    BY <1>1, <2>1, HooksStay DEF Wakes!vars
<1>2. ASSUME NEW e \in WakeEngines, Wakes!StartSession(e) \/ Wakes!Prompt(e) \/ Wakes!EndTurn(e)
      PROVE  WakeInv'
  <2>1. {"SessionStart", "UserPromptSubmit", "Stop"} \subseteq Wakes!Events
    BY DEF Wakes!Events
  <2> QED
    BY <1>2, <2>1, RunKeeps DEF Wakes!StartSession, Wakes!Prompt, Wakes!EndTurn
<1>3. ASSUME NEW e \in WakeEngines, Wakes!CloseSession(e) PROVE WakeInv'
  <2>1. Wakes!Of(e) \in SUBSET Hooks
    BY DEF Wakes!Of
  <2> QED
    BY <1>3, <2>1, KilledKeeps DEF Wakes!CloseSession
<1>4. ASSUME NEW e \in WakeEngines, NEW m \in News, Wakes!Read(e, m) PROVE WakeInv'
  BY <1>4, ReadKeeps
<1>5. ASSUME NEW m \in News, NEW es \in SUBSET WakeEngines, Wakes!Arrive(m, es) PROVE WakeInv'
  BY <1>5, ArriveKeeps
<1>6. ASSUME NEW h \in Hooks, Wakes!Step(h) PROVE WakeInv'
  BY <1>6, ClaimKeeps, SweepKeeps, SignKeeps, FetchKeeps, LoadKeeps, SaveKeeps, EmitKeeps,
     LeaveKeeps, WakeKeeps DEF Wakes!Step
<1>7. ASSUME NEW h \in Hooks, Wakes!Fail(h) \/ Wakes!Stream(h) PROVE WakeInv'
  BY <1>7, FailKeeps, StreamKeeps
<1>8. ASSUME NEW h \in Hooks, Wakes!TimeOut(h) PROVE WakeInv'
  <2>1. {h} \in SUBSET Hooks
    OBVIOUS
  <2> QED
    BY <1>8, <2>1, KilledKeeps DEF Wakes!TimeOut
<1> QED
  BY <1>1, <1>2, <1>3, <1>4, <1>5, <1>6, <1>7, <1>8 DEF Wakes!Next

-----------------------------------------------------------------------------
(* Interruptions (Interrupts) *)

\* The instance has a copy of FiniteSets; the theorems are about the original.
LEMMA GateCount ==
    \A S : /\ Gate!Cardinality(S) = Cardinality(S)
           /\ Gate!IsFiniteSet(S) <=> IsFiniteSet(S)
BY DEF Gate!Cardinality, Cardinality, Gate!IsFiniteSet, IsFiniteSet

\* How many interruptions the gate remembers.
Kept == IF MaxPerMinute = 0 THEN 1 ELSE MaxPerMinute

\* What the gate remembers is the end of what it let through.
Remembers ==
    /\ gate \in [verified : BOOLEAN, recent : Seq(Nat)]
    /\ Len(gate.recent) = IF Len(woken) <= Kept THEN Len(woken) ELSE Kept
    /\ \A i \in 1..Len(gate.recent) :
          gate.recent[i] = woken[(Len(woken) - Len(gate.recent)) + i]

\* The interruptions of the window that ends at t.
Counted(w, t) == {i \in 1..Len(w) : w[i] <= t /\ t - w[i] < Window}

\* The interruptions are in order of time, so if as many as the cap are in the
\* window the gate remembers every one of them.
GateInv ==
    /\ clock \in Nat /\ woken \in Seq(Nat)
    /\ \A i \in DOMAIN woken : woken[i] <= clock
    /\ \A i, j \in DOMAIN woken : i <= j => woken[i] <= woken[j]
    /\ \A t \in Nat : Cardinality(Counted(woken, t)) <= MaxPerMinute
    /\ MaxPerMinute = 0 => woken = <<>>
    /\ task # "none" => Remembers

LEMMA NothingCounted == \A t : Counted(<<>>, t) = {}
BY DEF Counted

LEMMA GateInit == ASSUME Gate!InterruptConstants, Gate!Init PROVE GateInv
BY NothingCounted, FS_EmptySet DEF Gate!Init, GateInv, Gate!InterruptConstants

LEMMA GateHolds == ASSUME Gate!InterruptConstants, GateInv PROVE Gate!RateHeld
BY GateCount DEF Gate!RateHeld, GateInv, Counted, Gate!Times, Gate!InterruptConstants

\* One more interruption, no sooner than a window after the one a cap's worth ago.
LEMMA OneMoreCounted ==
    ASSUME NEW M \in Nat, M # 0, Window \in Nat, NEW w \in Seq(Nat), NEW c \in Nat,
           \A i, j \in 1..Len(w) : i <= j => w[i] <= w[j],
           Len(w) >= M => c - w[(Len(w) + 1) - M] >= Window,
           NEW t \in Nat, Cardinality(Counted(w, t)) <= M
    PROVE  Cardinality(Counted(Append(w, c), t)) <= M
<1> DEFINE v == Append(w, c)  L == Len(w)
<1>1. /\ v \in Seq(Nat) /\ Len(v) = L + 1 /\ v[L + 1] = c /\ L \in Nat
      /\ \A i \in 1..L : v[i] = w[i] /\ w[i] \in Nat
  OBVIOUS
<1> HIDE DEF v, L
<1>2. CASE c > t
  <2>1. Counted(v, t) = Counted(w, t)
    BY <1>1, <1>2, SMTT(20) DEF Counted, L
  <2> QED
    BY <2>1 DEF v
<1>3. CASE c <= t
  <2>1. ASSUME NEW i \in Counted(v, t) PROVE i \in (L + 2 - M)..(L + 1)
    <3>1. i \in 1..(L + 1) /\ t - v[i] < Window
      BY <1>1, <2>1 DEF Counted
    <3> SUFFICES ASSUME i <= (L + 1) - M PROVE FALSE
      BY <1>1, <3>1
    <3>2. i \in 1..L /\ (L + 1) - M \in 1..L /\ L >= M
      BY <1>1, <3>1
    <3>3. w[i] <= w[(L + 1) - M] /\ c - w[(L + 1) - M] >= Window
      BY <3>2 DEF L
    <3>4. v[i] = w[i] /\ w[i] \in Nat /\ w[(L + 1) - M] \in Nat
      BY <1>1, <3>2
    <3> QED
      BY <1>3, <3>1, <3>3, <3>4, SMTT(20)
  <2>2. IsFiniteSet((L + 2 - M)..(L + 1)) /\ Cardinality((L + 2 - M)..(L + 1)) = M
    <3>1. L + 2 - M \in Int /\ L + 1 \in Int
      BY <1>1
    <3>2. ~ (L + 2 - M > L + 1) /\ (L + 1) - (L + 2 - M) + 1 = M
      BY <1>1
    <3> QED
      BY <3>1, <3>2, FS_Interval
  <2>3. Counted(v, t) \subseteq (L + 2 - M)..(L + 1)
    BY <2>1
  <2> QED
    BY <2>2, <2>3, FS_Subset DEF v
<1> QED
  BY <1>1, <1>2, <1>3

\* The gate forgets the oldest when it remembers a cap's worth.
LEMMA TailOf ==
    ASSUME NEW a \in Seq(Nat), NEW n \in Nat, Len(a) = n + 1
    PROVE  Tail(a) \in Seq(Nat) /\ Len(Tail(a)) = n /\ \A i \in 1..n : Tail(a)[i] = a[i + 1]
<1>1. a # <<>>
  OBVIOUS
<1>2. Tail(a) \in Seq(Nat) /\ Len(Tail(a)) = Len(a) - 1
      /\ \A i \in 1..(Len(a) - 1) : Tail(a)[i] = a[i + 1]
  BY <1>1
<1>3. Len(a) - 1 = n
  OBVIOUS
<1> QED
  BY <1>2, <1>3

LEMMA FullGate ==
    ASSUME NEW w \in Seq(Nat), NEW r \in Seq(Nat), NEW c \in Nat,
           Len(r) # 0, Len(r) <= Len(w),
           \A i \in 1..Len(r) : r[i] = w[(Len(w) - Len(r)) + i]
    PROVE  /\ Tail(Append(r, c)) \in Seq(Nat) /\ Len(Tail(Append(r, c))) = Len(r)
           /\ \A i \in 1..Len(r) :
                 Tail(Append(r, c))[i] = Append(w, c)[((Len(w) + 1) - Len(r)) + i]
<1>1. Append(r, c) \in Seq(Nat) /\ Len(Append(r, c)) = Len(r) + 1 /\ Append(r, c) # <<>>
  BY AppendProperties
<1>2. /\ Tail(Append(r, c)) \in Seq(Nat) /\ Len(Tail(Append(r, c))) = Len(r)
      /\ \A i \in 1..Len(r) : Tail(Append(r, c))[i] = Append(r, c)[i + 1]
  <2>1. Len(r) \in Nat
    OBVIOUS
  <2> QED
    BY <1>1, <2>1, TailOf
<1>3. ASSUME NEW i \in 1..Len(r)
      PROVE  Append(r, c)[i + 1] = Append(w, c)[((Len(w) + 1) - Len(r)) + i]
  <2>1. CASE i = Len(r)
    BY <2>1
  <2>2. CASE i # Len(r)
    <3>1. Append(r, c)[i + 1] = r[i + 1] /\ i + 1 \in 1..Len(r)
      BY <2>2, SMTT(20)
    <3>2. r[i + 1] = w[(Len(w) - Len(r)) + (i + 1)]
      BY <3>1
    <3>3. (Len(w) - Len(r)) + (i + 1) = ((Len(w) + 1) - Len(r)) + i
          /\ ((Len(w) + 1) - Len(r)) + i \in 1..Len(w)
      BY <2>2
    <3>4. Append(w, c)[((Len(w) + 1) - Len(r)) + i] = w[((Len(w) + 1) - Len(r)) + i]
      BY <3>3
    <3> QED
      BY <3>1, <3>2, <3>3, <3>4
  <2> QED
    BY <2>1, <2>2
<1> QED
  BY <1>2, <1>3

LEMMA GateWithRoom ==
    ASSUME NEW w \in Seq(Nat), NEW r \in Seq(Nat), NEW c \in Nat, Len(r) = Len(w),
           \A i \in 1..Len(r) : r[i] = w[(Len(w) - Len(r)) + i]
    PROVE  /\ Append(r, c) \in Seq(Nat) /\ Len(Append(r, c)) = Len(r) + 1
           /\ \A i \in 1..(Len(r) + 1) :
                 Append(r, c)[i] = Append(w, c)[((Len(w) + 1) - (Len(r) + 1)) + i]
<1>1. \A i \in 1..Len(r) : r[i] = w[i]
  OBVIOUS
<1>2. \A i \in 1..(Len(r) + 1) : Append(r, c)[i] = Append(w, c)[i]
  BY <1>1
<1>3. \A i \in 1..(Len(r) + 1) : ((Len(w) + 1) - (Len(r) + 1)) + i = i
  OBVIOUS
<1> QED
  BY <1>2, <1>3, AppendProperties

LEMMA SoonerYet ==
    ASSUME NEW w \in Seq(Nat), NEW i \in 1..Len(w), NEW j \in 1..Len(w), NEW c \in Nat,
           Window \in Nat, ~ (c - w[i] >= Window), w[i] <= w[j]
    PROVE  c - w[j] < Window
OBVIOUS

LEMMA StillInOrder ==
    ASSUME NEW w \in Seq(Nat), NEW c \in Nat, \A i \in 1..Len(w) : w[i] <= c,
           \A i, j \in 1..Len(w) : i <= j => w[i] <= w[j]
    PROVE  /\ \A i \in DOMAIN Append(w, c) : Append(w, c)[i] <= c
           /\ \A i, j \in DOMAIN Append(w, c) : i <= j => Append(w, c)[i] <= Append(w, c)[j]
<1>1. /\ DOMAIN Append(w, c) = 1..(Len(w) + 1) /\ Append(w, c)[Len(w) + 1] = c
      /\ \A i \in 1..Len(w) : Append(w, c)[i] = w[i]
  OBVIOUS
<1>2. ASSUME NEW i \in DOMAIN Append(w, c) PROVE Append(w, c)[i] <= c
  <2>1. CASE i = Len(w) + 1
    BY <1>1, <2>1
  <2>2. CASE i \in 1..Len(w)
    BY <1>1, <2>2
  <2> QED
    BY <1>1, <2>1, <2>2
<1>3. ASSUME NEW i \in DOMAIN Append(w, c), NEW j \in DOMAIN Append(w, c), i <= j
      PROVE  Append(w, c)[i] <= Append(w, c)[j]
  <2>1. CASE j = Len(w) + 1
    BY <1>1, <1>2, <2>1
  <2>2. CASE i \in 1..Len(w) /\ j \in 1..Len(w)
    BY <1>1, <1>3, <2>2
  <2> QED
    BY <1>1, <1>3, <2>1, <2>2
<1> QED
  BY <1>2, <1>3

LEMMA WakeStep ==
    ASSUME Gate!InterruptConstants, GateInv, NEW from \in Senders, Gate!Arrive(from),
           Gate!Reason(from) = "wake"
    PROVE  GateInv'
<1>1. /\ task = "read" /\ gate' = [gate EXCEPT !.recent = Gate!Remembered(@)]
      /\ woken' = Append(woken, clock) /\ clock' = clock
      /\ Remembers
  BY DEF Gate!Arrive, GateInv
<1>2. PICK w \in Seq(Nat), r \in Seq(Nat), c \in Nat, M \in Nat :
          w = woken /\ r = gate.recent /\ c = clock /\ M = MaxPerMinute
  BY <1>1 DEF Remembers, GateInv, Gate!InterruptConstants
<1>3. Window \in Nat
  BY DEF Gate!InterruptConstants
<1>4. ~ (Cardinality(Gate!Within(r)) >= M)
  BY <1>2, GateCount DEF Gate!Reason
<1>5. /\ Gate!Within(r) \subseteq 1..Len(r)
      /\ IsFiniteSet(Gate!Within(r))
      /\ Cardinality(Gate!Within(r)) \in Nat
  <2>1. IsFiniteSet(1..Len(r))
    BY FS_Interval
  <2>2. Gate!Within(r) \subseteq 1..Len(r)
    BY DEF Gate!Within
  <2> QED
    BY <2>1, <2>2, FS_Subset, FS_CardinalityType
<1>6. M # 0
  BY <1>4, <1>5
<1>7. Len(r) = (IF Len(w) <= M THEN Len(w) ELSE M)
      /\ \A i \in 1..Len(r) : r[i] = w[(Len(w) - Len(r)) + i]
  BY <1>1, <1>2, <1>6 DEF Remembers, Kept
<1>8. /\ \A i \in 1..Len(w) : w[i] <= c
      /\ \A i, j \in 1..Len(w) : i <= j => w[i] <= w[j]
      /\ \A t \in Nat : Cardinality(Counted(w, t)) <= M
  BY <1>2 DEF GateInv
<1>9. Len(w) >= M => c - w[(Len(w) + 1) - M] >= Window
  <2> SUFFICES ASSUME Len(w) >= M, ~ (c - w[(Len(w) + 1) - M] >= Window) PROVE FALSE
    OBVIOUS
  <2>1. Len(r) = M
    BY <1>7
  <2>2. ASSUME NEW i \in 1..Len(r) PROVE c - r[i] < Window
    <3>1. r[i] = w[(Len(w) - M) + i]
      BY <1>7, <2>1
    <3>2. /\ (Len(w) + 1) - M <= (Len(w) - M) + i
          /\ (Len(w) + 1) - M \in 1..Len(w) /\ (Len(w) - M) + i \in 1..Len(w)
      BY <1>6, <2>1
    <3>3. w[(Len(w) + 1) - M] <= w[(Len(w) - M) + i]
      BY <1>8, <3>2
    <3> QED
      BY <1>3, <3>1, <3>2, <3>3, SoonerYet
  <2>3. Gate!Within(r) = 1..Len(r)
    BY <1>2, <2>2 DEF Gate!Within
  <2>4. Cardinality(1..M) = M
    BY FS_Interval
  <2> QED
    BY <1>4, <2>1, <2>3, <2>4
<1> DEFINE v == Append(w, c)
<1>10. v \in Seq(Nat) /\ Len(v) = Len(w) + 1 /\ Len(w) \in Nat
  BY AppendProperties
<1>11. \A t \in Nat : Cardinality(Counted(v, t)) <= M
  BY <1>3, <1>6, <1>8, <1>9, <1>10, OneMoreCounted
<1>12. /\ \A i \in DOMAIN v : v[i] <= c
       /\ \A i, j \in DOMAIN v : i <= j => v[i] <= v[j]
  BY <1>8, StillInOrder
<1>13. PICK q : q = Gate!Remembered(r)
  OBVIOUS
<1>14. q = IF Len(r) + 1 > M THEN Tail(Append(r, c)) ELSE Append(r, c)
  BY <1>2, <1>6, <1>13 DEF Gate!Remembered
<1>15. /\ q \in Seq(Nat)
       /\ Len(q) = IF Len(v) <= M THEN Len(v) ELSE M
       /\ \A i \in 1..Len(q) : q[i] = v[(Len(v) - Len(q)) + i]
  <2>0. Len(v) = Len(w) + 1 /\ Len(w) \in Nat
    BY <1>10
  <2> HIDE DEF v
  <2>1. CASE Len(r) + 1 > M
    <3>1. q = Tail(Append(r, c))
      BY <1>14, <2>1
    <3>2. Len(r) # 0 /\ Len(r) <= Len(w) /\ Len(r) = IF Len(w) + 1 <= M THEN Len(w) + 1 ELSE M
      BY <1>6, <1>7, <2>0, <2>1
    <3>3. /\ q \in Seq(Nat) /\ Len(q) = Len(r)
          /\ \A i \in 1..Len(r) : q[i] = v[((Len(w) + 1) - Len(r)) + i]
      BY <1>7, <3>1, <3>2, FullGate DEF v
    <3> QED
      BY <2>0, <3>2, <3>3
  <2>2. CASE ~ (Len(r) + 1 > M)
    <3>1. q = Append(r, c)
      BY <1>14, <2>2
    <3>2. Len(r) = Len(w) /\ Len(r) + 1 = IF Len(w) + 1 <= M THEN Len(w) + 1 ELSE M
      BY <1>6, <1>7, <2>0, <2>2
    <3>3. /\ q \in Seq(Nat) /\ Len(q) = Len(r) + 1
          /\ \A i \in 1..(Len(r) + 1) : q[i] = v[((Len(w) + 1) - (Len(r) + 1)) + i]
      BY <1>7, <3>1, <3>2, GateWithRoom DEF v
    <3> QED
      BY <2>0, <3>2, <3>3
  <2> QED
    BY <2>1, <2>2
<1>16. gate' \in [verified : BOOLEAN, recent : Seq(Nat)] /\ gate'.recent = q
  BY <1>1, <1>2, <1>13, <1>15 DEF Remembers
<1>17. woken' = v
  BY <1>1, <1>2
<1>18. Remembers'
  BY <1>2, <1>6, <1>15, <1>16, <1>17 DEF Remembers, Kept
<1> QED
  BY <1>1, <1>2, <1>6, <1>11, <1>12, <1>17, <1>18, SMTT(20) DEF GateInv

\* A listening task that begins anew, or none.
LEMMA NothingWoken ==
    ASSUME Gate!InterruptConstants, GateInv, woken' = <<>>, clock' = clock,
           task' # "none" => Remembers'
    PROVE  GateInv'
<1>1. /\ \A t \in Nat : Counted(woken', t) = {}
      /\ Cardinality({}) <= MaxPerMinute
  BY NothingCounted, FS_EmptySet DEF Gate!InterruptConstants
<1>2. \A t \in Nat : Cardinality(Counted(woken', t)) <= MaxPerMinute
  BY <1>1
<1> QED
  BY <1>2 DEF GateInv

LEMMA GateNext ==
    ASSUME Gate!InterruptConstants, GateInv, [Gate!Next]_(Gate!vars)
    PROVE  GateInv'
<1>1. ASSUME NEW from \in Senders, Gate!Arrive(from),
             Gate!Reason(from) # "wake" PROVE GateInv'
  BY <1>1 DEF Gate!Arrive, GateInv, Remembers
<1>2. ASSUME NEW from \in Senders, Gate!Arrive(from) PROVE GateInv'
  BY <1>1, <1>2, WakeStep
<1>3. CASE Gate!ToolCall
  <2>1. gate' = Gate!NewGate /\ woken' = <<>> /\ clock' = clock
    BY <1>3 DEF Gate!ToolCall
  <2>2. Gate!NewGate \in [verified : BOOLEAN, recent : Seq(Nat)] /\ Gate!NewGate.recent = <<>>
    BY DEF Gate!NewGate
  <2>3. Remembers'
    BY <2>1, <2>2 DEF Remembers, Kept, Gate!InterruptConstants
  <2> QED
    BY <2>1, <2>3, NothingWoken
<1>4. CASE \/ Gate!Connect
           \/ Gate!Fail
           \/ Gate!RefusedForGood
           \/ Gate!End
           \/ Gate!Redial
           \/ Gate!HubRestarts
           \/ UNCHANGED Gate!vars
  BY <1>4 DEF Gate!Connect, Gate!GateKept, Gate!Fail, Gate!RefusedForGood, Gate!End,
     Gate!Redial, Gate!HubRestarts, Gate!vars, GateInv,
              Remembers, Kept
<1>5. CASE Gate!Settle
  <2>1. Remembers /\ gate' = [gate EXCEPT !.verified = Gate!Verified] /\ UNCHANGED <<clock, woken>>
    BY <1>5 DEF Gate!Settle, GateInv
  <2>2. gate' \in [verified : BOOLEAN, recent : Seq(Nat)] /\ gate'.recent = gate.recent
    BY <2>1 DEF Remembers, Gate!Verified
  <2> QED
    BY <2>1, <2>2, <1>5 DEF GateInv, Remembers, Gate!Settle, Kept
<1>6. CASE Gate!StopListening
  BY <1>6, NothingWoken DEF Gate!StopListening
<1>7. CASE Gate!Tick
  <2>1. clock' = clock + 1 /\ UNCHANGED <<gate, woken, task>> /\ clock \in Nat
    BY <1>7 DEF Gate!Tick, GateInv
  <2>2. Remembers' <=> Remembers
    BY <2>1 DEF Remembers, Kept
  <2>3. \A i \in DOMAIN woken : woken[i] \in Nat
    BY DEF GateInv
  <2> QED
    BY <2>1, <2>2, <2>3 DEF GateInv
<1> QED
  BY <1>2, <1>3, <1>4, <1>5, <1>6, <1>7 DEF Gate!Next

-----------------------------------------------------------------------------
(* Replies (Replies) *)

\* An item that was looked for is an item of the batch.
Posting ==
    /\ step # "idle" => calls \in 1..Calls
    /\ step \in {"checked", "waiting"} => Len(results) < Len(batch)

\* Types, with where in the batch the call is.
ReplyTypes == Answers!TypeOK /\ Posting

\* A post of the reply that the hub has not stored yet.
Sent(f, r) == f \in flight /\ f.stage = "sent" /\ f.reply = r

\* A reply that was never looked for too early has been stored once, or is on
\* its way once, or is about to be sent for the first time.
Once(r) ==
    /\ stored[r] <= 1
    /\ \A f, g \in flight : Sent(f, r) /\ Sent(g, r) => f = g
    /\ \A f \in flight : Sent(f, r) => stored[r] = 0
    /\ step = "checked" /\ Answers!This = r => stored[r] = 0 /\ \A f \in flight : ~ Sent(f, r)

\* A post that is past its store is stored.
StoredFollows == \A f \in flight : f.stage # "sent" => stored[f.reply] > 0

\* A reply is stored once or under way once, what is past its store is stored,
\* and the results say what is stored.
ReplyInv ==
    /\ ReplyTypes
    /\ \A r \in Answers!Reply \ early : Once(r)
    /\ StoredFollows
    /\ Answers!LedgerIsTrue

----------------------------------------------------------------------------
LEMMA RepliesInit == ASSUME Answers!RepliesConstants, Answers!Init PROVE ReplyInv
<1>1. ReplyTypes
  BY DEF Answers!Init, Answers!RepliesConstants, ReplyTypes, Answers!TypeOK, Posting
<1>2. (\A r \in Answers!Reply \ early : Once(r)) /\ StoredFollows /\ Answers!LedgerIsTrue
  BY DEF Answers!Init, Once, Sent, StoredFollows, Answers!LedgerIsTrue
<1> QED
  BY <1>1, <1>2 DEF ReplyInv

\* An item that is looked at, checked or waited for is a reply of the batch.
LEMMA ThisIsReply ==
    ASSUME Answers!RepliesConstants, ReplyTypes, step # "idle", Len(results) < Len(batch)
    PROVE  /\ Answers!This \in Answers!Reply /\ batch \in Seq(Answers!Reply) /\ Len(batch) \in Nat
           /\ Len(results) \in Nat /\ calls \in 1..Calls /\ Answers!At = Len(results) + 1
  BY DEF Answers!RepliesConstants, ReplyTypes, Answers!TypeOK, Posting, Answers!This,
     Answers!At

LEMMA ReplyLengths ==
    ASSUME Answers!RepliesConstants, ReplyTypes
    PROVE  /\ Len(results) \in Nat /\ Len(batch) \in Nat
           /\ Answers!Turn => step = "next" /\ Len(results) < Len(batch)
<1>1. batch \in Seq(Answers!Reply) /\ results \in Seq(Answers!Outcomes)
  BY DEF Answers!RepliesConstants, ReplyTypes, Answers!TypeOK
<1>2. Len(results) \in Nat /\ Len(batch) \in Nat
  BY <1>1
<1> QED
  BY <1>2 DEF Answers!Turn, Answers!At

LEMMA ReportTyped ==
    ASSUME Answers!RepliesConstants, ReplyTypes, NEW outcome \in Answers!Outcomes,
           Answers!Report(outcome),
           step # "idle", Len(results) < Len(batch)
    PROVE  /\ results' \in Seq(Answers!Outcomes) /\ Len(results') = Len(results) + 1
           /\ Len(results') <= Len(batch) /\ step' = "next"
           /\ \A i \in 1..Len(results) : results'[i] = results[i]
           /\ results'[Len(results) + 1] = outcome
  BY ThisIsReply DEF Answers!Report, ReplyTypes, Answers!TypeOK

LEMMA StepTyped ==
    ASSUME Answers!RepliesConstants, ReplyTypes, [Answers!Next]_(Answers!vars)
    PROVE  ReplyTypes'
<1> USE DEF Answers!Outcomes
<1>1. ASSUME NEW b \in Batches, Answers!Call(b) PROVE ReplyTypes'
  <2>1. b \in Seq(Answers!Reply)
    BY DEF Answers!RepliesConstants
  <2>3. calls \in Nat /\ Calls \in Nat
    <3>1. calls \in 0..Calls
      BY DEF ReplyTypes, Answers!TypeOK
    <3>2. Calls \in Nat
      BY DEF Answers!RepliesConstants
    <3> QED
      BY <3>1, <3>2
  <2>2. /\ results' \in Seq(Answers!Outcomes) /\ Len(results') <= Len(batch')
        /\ calls' \in 1..Calls
    BY <1>1, <2>1, <2>3 DEF Answers!Call
  <2>4. /\ batch' \in Batches \cup {<<>>} /\ step' = "next" /\ calls' \in 0..Calls
        /\ UNCHANGED <<flight, stored, handled, early>>
    BY <1>1, <2>2, <2>3 DEF Answers!Call
  <2>5. Answers!TypeOK'
    BY <2>2, <2>4 DEF ReplyTypes, Answers!TypeOK
  <2> QED
    BY <2>2, <2>4, <2>5 DEF ReplyTypes, Posting
<1>2. CASE Answers!Repeated \/ Answers!BeyondCap \/ Answers!CheckFails
  <2>1. /\ step = "next" /\ Len(results) < Len(batch)
        /\ \E outcome \in Answers!Outcomes : Answers!Report(outcome)
        /\ UNCHANGED <<batch, calls, flight, stored, handled, early>>
    BY <1>2, ReplyLengths DEF Answers!Repeated, Answers!BeyondCap, Answers!CheckFails,
       Answers!Attempted
  <2> QED
    BY <2>1, ReportTyped DEF ReplyTypes, Answers!TypeOK, Posting
<1>3. CASE Answers!Check
  <2>1. /\ step = "next" /\ Len(results) < Len(batch)
        /\ Answers!Report("duplicate") \/ (results' = results /\ step' = "checked")
        /\ early' \in {early, early \cup {Answers!This}}
        /\ UNCHANGED <<batch, calls, flight, stored, handled>>
    BY <1>3, ReplyLengths DEF Answers!Check, Answers!Attempted
  <2>2. Answers!This \in Answers!Reply /\ calls \in 1..Calls
    BY <2>1, ThisIsReply
  <2>3. CASE Answers!Report("duplicate")
    BY <2>1, <2>2, <2>3, ReportTyped DEF ReplyTypes, Answers!TypeOK, Posting
  <2>4. CASE results' = results /\ step' = "checked"
    BY <2>1, <2>2, <2>4 DEF ReplyTypes, Answers!TypeOK, Posting
  <2> QED
    BY <2>1, <2>3, <2>4
<1>4. CASE Answers!Send
  <2>1. [reply |-> Answers!This, call |-> calls, stage |-> "sent"] \in Answers!Post
    BY <1>4, ThisIsReply DEF Answers!Send, ReplyTypes, Posting, Answers!Post
  <2> QED
    BY <1>4, <2>1 DEF Answers!Send, ReplyTypes, Answers!TypeOK, Posting
<1>5. CASE Answers!Unreached \/ Answers!TimedOut
  <2>1. /\ step \in {"checked", "waiting"} /\ Answers!Report("failed")
        /\ UNCHANGED <<batch, calls, flight, stored, handled, early>>
    BY <1>5 DEF Answers!Unreached, Answers!TimedOut
  <2>2. Len(results) < Len(batch)
    BY <2>1 DEF ReplyTypes, Posting
  <2> QED
    BY <2>1, <2>2, ReportTyped DEF ReplyTypes, Answers!TypeOK, Posting
<1>6. CASE Answers!Done
  BY <1>6 DEF Answers!Done, ReplyTypes, Answers!TypeOK, Posting
<1>7. ASSUME NEW f \in flight, Answers!Answered(f) \/ Answers!Refused(f) PROVE ReplyTypes'
  <2>1. /\ flight' = flight \ {f}
        /\ UNCHANGED <<batch, calls, stored, handled, early>>
        /\ \/ step = "waiting" /\ \E outcome \in Answers!Outcomes : Answers!Report(outcome)
           \/ UNCHANGED <<results, step>>
    BY <1>7 DEF Answers!Answered, Answers!Refused, Answers!Mine
  <2>2. CASE step = "waiting" /\ \E outcome \in Answers!Outcomes : Answers!Report(outcome)
    BY <2>1, <2>2, ReportTyped DEF ReplyTypes, Answers!TypeOK, Posting
  <2>3. CASE UNCHANGED <<results, step>>
    BY <2>1, <2>3 DEF ReplyTypes, Answers!TypeOK, Posting
  <2> QED
    BY <2>1, <2>2, <2>3
<1>8. ASSUME NEW f \in flight,
             Answers!StoreReply(f) \/ Answers!Mark(f) \/ Answers!Forget(f) PROVE ReplyTypes'
  <2>1. f \in Answers!Post /\ f.reply \in Answers!Reply /\ f.reply.message \in Messages
    BY DEF ReplyTypes, Answers!TypeOK, Answers!Post, Answers!Reply
  <2>2. \A then \in {"stored", "answering"} : [f EXCEPT !.stage = then] \in Answers!Post
    BY <2>1 DEF Answers!Post
  <2>3. flight' \subseteq Answers!Post
    BY <1>8, <2>2, ZenonT(30) DEF Answers!StoreReply, Answers!Mark, Answers!Forget,
       Answers!Becomes, ReplyTypes, Answers!TypeOK
  <2>4. stored' \in [Answers!Reply -> Nat] /\ handled' \subseteq Messages
    <3>1. CASE Answers!StoreReply(f)
      <4>1. /\ stored \in [Answers!Reply -> Nat] /\ handled \subseteq Messages
            /\ stored' = [stored EXCEPT ![f.reply] = @ + 1] /\ handled' = handled
        BY <3>1 DEF Answers!StoreReply, ReplyTypes, Answers!TypeOK
      <4>2. stored[f.reply] + 1 \in Nat
        BY <2>1, <4>1
      <4> QED
        BY <4>1, <4>2
    <3>2. CASE Answers!Mark(f) \/ Answers!Forget(f)
      BY <2>1, <3>2 DEF Answers!Mark, Answers!Forget, ReplyTypes, Answers!TypeOK
    <3> QED
      BY <1>8, <3>1, <3>2
  <2> QED
    BY <1>8, <2>3, <2>4 DEF Answers!StoreReply, Answers!Mark, Answers!Forget, ReplyTypes,
       Answers!TypeOK, Posting
<1>9. CASE UNCHANGED Answers!vars
  BY <1>9 DEF Answers!vars, ReplyTypes, Answers!TypeOK, Posting
<1> QED
  BY <1>1, <1>2, <1>3, <1>4, <1>5, <1>6, <1>7, <1>8, <1>9 DEF Answers!Next

----------------------------------------------------------------------------
\* A step that stores nothing, sends nothing and does not look at the thread
\* leaves every reply where it was.
LEMMA OnceStays ==
    ASSUME NEW r, Once(r), stored' = stored,
           step' # "checked" \/ UNCHANGED <<step, batch, results>>,
           \A f \in flight' : f.stage = "sent" => f \in flight
    PROVE  Once(r)'
  BY DEF Once, Sent, Answers!This, Answers!At

LEMMA StepOnce ==
    ASSUME Answers!RepliesConstants, ReplyInv, [Answers!Next]_(Answers!vars),
           NEW r \in Answers!Reply \ early'
    PROVE  Once(r)'
<1>0. early \subseteq early'
  BY DEF Answers!Next, Answers!vars, Answers!Call, Answers!Repeated, Answers!BeyondCap,
     Answers!Check, Answers!CheckFails, Answers!Send, Answers!Unreached, Answers!TimedOut,
         Answers!Done, Answers!Answered, Answers!Refused, Answers!StoreReply, Answers!Mark, Answers!Forget
<1>1. Once(r) /\ stored[r] \in Nat
  BY <1>0 DEF ReplyInv, ReplyTypes, Answers!TypeOK
<1>2. CASE \/ \E b \in Batches : Answers!Call(b)
           \/ Answers!Repeated \/ Answers!BeyondCap \/ Answers!CheckFails \/ Answers!Unreached \/ Answers!TimedOut \/ Answers!Done
           \/ UNCHANGED Answers!vars
  BY <1>1, <1>2, OnceStays DEF Answers!Call, Answers!Repeated, Answers!BeyondCap,
     Answers!CheckFails, Answers!Unreached, Answers!TimedOut,
     Answers!Done, Answers!Report, Answers!vars
<1>3. CASE Answers!Check
  <2>1. CASE Answers!Found(Answers!This)
    BY <1>1, <1>3, <2>1, OnceStays DEF Answers!Check, Answers!Report
  <2>2. CASE ~ Answers!Found(Answers!This)
    <3>1. /\ step' = "checked" /\ UNCHANGED <<flight, stored, batch, results>>
          /\ \A f \in flight : ~ Sent(f, Answers!This) \/ Answers!This \in early'
      BY <1>3, <2>2 DEF Answers!Check, Sent
    <3>2. Answers!This' = Answers!This
      BY <3>1 DEF Answers!This, Answers!At
    <3>3. Answers!This = r => stored[r] = 0
      BY <1>1, <2>2 DEF Answers!Found
    <3> QED
      BY <1>1, <3>1, <3>2, <3>3 DEF Once, Sent
  <2> QED
    BY <2>1, <2>2
<1>4. CASE Answers!Send
  BY <1>1, <1>4 DEF Answers!Send, Once, Sent
<1>5. ASSUME NEW f \in flight,
             Answers!Answered(f) \/ Answers!Refused(f) \/ Answers!Forget(f) PROVE Once(r)'
  BY <1>1, <1>5, OnceStays DEF Answers!Answered, Answers!Refused, Answers!Forget,
     Answers!Report
<1>6. ASSUME NEW f \in flight, Answers!StoreReply(f) \/ Answers!Mark(f) PROVE Once(r)'
  <2>1. f \in Answers!Post /\ f.reply \in Answers!Reply
    BY DEF ReplyInv, ReplyTypes, Answers!TypeOK, Answers!Post
  <2>2. \A then \in {"stored", "answering"} : [f EXCEPT !.stage = then].stage = then
    BY <2>1 DEF Answers!Post
  <2>3. \A g \in flight' : g.stage = "sent" => g \in flight /\ g # f
    BY <1>6, <2>2 DEF Answers!StoreReply, Answers!Mark, Answers!Becomes
  <2>4. UNCHANGED <<step, batch, results>>
    BY <1>6 DEF Answers!StoreReply, Answers!Mark
  <2>5. CASE Answers!Mark(f) \/ f.reply # r
    <3>1. stored'[r] = stored[r]
      BY <1>6, <2>1, <2>5 DEF Answers!StoreReply, Answers!Mark, ReplyInv, ReplyTypes,
         Answers!TypeOK
    <3> QED
      BY <1>1, <2>3, <2>4, <3>1 DEF Once, Sent, Answers!This, Answers!At
  <2>6. CASE Answers!StoreReply(f) /\ f.reply = r
    <3>1. Sent(f, r) /\ stored[r] = 0 /\ ~ (step = "checked" /\ Answers!This = r)
      BY <1>1, <2>6 DEF Answers!StoreReply, Sent, Once
    <3>2. stored'[r] = 1
      BY <2>6, <3>1 DEF Answers!StoreReply, ReplyInv, ReplyTypes, Answers!TypeOK
    <3>3. \A g \in flight' : ~ (g.stage = "sent" /\ g.reply = r)
      BY <1>1, <2>3, <3>1 DEF Once, Sent
    <3> QED
      BY <2>4, <3>1, <3>2, <3>3 DEF Once, Sent, Answers!This, Answers!At
  <2> QED
    BY <1>6, <2>5, <2>6
<1> QED
  BY <1>2, <1>3, <1>4, <1>5, <1>6 DEF Answers!Next

\* What was stored stays.
LEMMA StoredGrows ==
    ASSUME ReplyInv, [Answers!Next]_(Answers!vars), NEW r \in Answers!Reply
    PROVE  /\ stored[r] \in Nat /\ stored'[r] \in Nat
           /\ stored'[r] >= stored[r]
<1>1. stored \in [Answers!Reply -> Nat]
  BY DEF ReplyInv, ReplyTypes, Answers!TypeOK
<1>2. CASE UNCHANGED stored
  BY <1>1, <1>2
<1>3. ASSUME NEW f \in flight,
             Answers!StoreReply(f) PROVE stored'[r] \in Nat /\ stored'[r] >= stored[r]
  BY <1>1, <1>3 DEF Answers!StoreReply
<1> QED
  BY <1>1, <1>2, <1>3 DEF Answers!Next, Answers!vars, Answers!Call, Answers!Repeated,
     Answers!BeyondCap, Answers!Check, Answers!CheckFails, Answers!Send,
     Answers!Unreached, Answers!TimedOut, Answers!Done, Answers!Answered, Answers!Refused, Answers!Mark, Answers!Forget

LEMMA StepFollows ==
    ASSUME Answers!RepliesConstants, ReplyInv, [Answers!Next]_(Answers!vars)
    PROVE  StoredFollows'
<1> SUFFICES ASSUME NEW g \in flight', g.stage # "sent"
             PROVE  g.reply \in Answers!Reply /\ stored'[g.reply] > 0
  BY DEF StoredFollows
<1>1. CASE g \in flight
  <2>1. g.reply \in Answers!Reply /\ stored[g.reply] > 0
    BY <1>1 DEF ReplyInv, ReplyTypes, Answers!TypeOK, Answers!Post, StoredFollows
  <2> QED
    BY <2>1, StoredGrows
<1>2. CASE g \notin flight
  <2>1. ~ Answers!Send
    BY <1>2 DEF Answers!Send
  <2>2. PICK f \in flight : Answers!StoreReply(f) \/ Answers!Mark(f)
    BY <1>2, <2>1 DEF Answers!Next, Answers!vars, Answers!Call, Answers!Repeated,
       Answers!BeyondCap, Answers!Check, Answers!CheckFails,
       Answers!Unreached, Answers!TimedOut, Answers!Done, Answers!Answered, Answers!Refused, Answers!Forget
  <2>3. f \in Answers!Post /\ f.reply \in Answers!Reply
    BY DEF ReplyInv, ReplyTypes, Answers!TypeOK, Answers!Post
  <2>4. g.reply = f.reply
    BY <1>2, <2>2, <2>3 DEF Answers!StoreReply, Answers!Mark, Answers!Becomes, Answers!Post
  <2>5. CASE Answers!StoreReply(f)
    BY <2>3, <2>4, <2>5 DEF Answers!StoreReply, ReplyInv, ReplyTypes, Answers!TypeOK
  <2>6. CASE Answers!Mark(f)
    BY <2>3, <2>4, <2>6 DEF Answers!Mark, ReplyInv, StoredFollows
  <2> QED
    BY <2>2, <2>5, <2>6
<1> QED
  BY <1>1, <1>2

LEMMA StepLedger ==
    ASSUME Answers!RepliesConstants, ReplyInv, [Answers!Next]_(Answers!vars)
    PROVE  Answers!LedgerIsTrue'
<1>0. ReplyTypes /\ ReplyTypes' /\ Answers!LedgerIsTrue /\ StoredFollows
  BY StepTyped DEF ReplyInv
<1>1. ASSUME NEW m \in handled'
      PROVE \E r \in Answers!Reply : r.message = m /\ stored'[r] > 0
  <2>1. CASE m \in handled
    BY <1>0, <2>1, StoredGrows DEF Answers!LedgerIsTrue
  <2>2. CASE m \notin handled
    <3>1. PICK f \in flight : Answers!Mark(f)
      BY <1>1, <2>2 DEF Answers!Next, Answers!vars, Answers!Call, Answers!Repeated,
         Answers!BeyondCap, Answers!Check, Answers!CheckFails, Answers!Send,
         Answers!Unreached, Answers!TimedOut, Answers!Done, Answers!Answered, Answers!Refused, Answers!Forget, Answers!StoreReply
    <3>2. /\ m = f.reply.message /\ f.reply \in Answers!Reply
          /\ stored[f.reply] > 0 /\ stored' = stored
      BY <1>0, <1>1, <2>2, <3>1 DEF Answers!Mark, StoredFollows, ReplyTypes, Answers!TypeOK,
         Answers!Post
    <3> QED
      BY <3>2
  <2> QED
    BY <2>1, <2>2
<1>2. ASSUME NEW i \in 1..Len(results'), Answers!Assures(i)'
      PROVE  stored'[batch'[i]] > 0
  <2>1. CASE UNCHANGED <<results, batch>>
    <3>1. stored[batch[i]] > 0
      BY <1>0, <1>2, <2>1 DEF Answers!LedgerIsTrue, Answers!Assures, Answers!Again
    <3>2. batch[i] \in Answers!Reply
      BY <1>0, <1>2, <2>1 DEF Answers!RepliesConstants, ReplyTypes, Answers!TypeOK
    <3> QED
      BY <2>1, <3>1, <3>2, StoredGrows
  <2>2. ASSUME NEW outcome \in Answers!Outcomes, Answers!Report(outcome), step # "idle",
               Len(results) < Len(batch), UNCHANGED <<batch, stored>>,
               \/ outcome = "delivered"
               \/ outcome = "duplicate" /\ ~Answers!Again(Answers!At)
               => stored[Answers!This] > 0
        PROVE  stored'[batch'[i]] > 0
    <3>1. /\ Len(results') = Len(results) + 1 /\ Len(results) \in Nat
          /\ \A j \in 1..Len(results) : results'[j] = results[j]
          /\ results'[Len(results) + 1] = outcome
      BY <1>0, <2>2, ReportTyped, ThisIsReply
    <3>2. CASE i \in 1..Len(results)
      BY <1>0, <1>2, <2>2, <3>1, <3>2 DEF Answers!LedgerIsTrue, Answers!Assures,
         Answers!Again
    <3>3. CASE i = Len(results) + 1
      <4>1. results'[i] = outcome /\ Answers!At = i /\ batch' = batch
        BY <2>2, <3>1, <3>3 DEF Answers!At
      <4>2. outcome = "delivered" \/ (outcome = "duplicate" /\ ~Answers!Again(i))
        BY <1>2, <4>1 DEF Answers!Assures, Answers!Again
      <4> QED
        BY <2>2, <4>1, <4>2 DEF Answers!This
    <3> QED
      BY <1>2, <3>1, <3>2, <3>3
  <2>3. CASE \E b \in Batches : Answers!Call(b)
    BY <1>2, <2>3 DEF Answers!Call
  <2>4. CASE Answers!BeyondCap \/ Answers!CheckFails
    <3>1. /\ step = "next" /\ Len(results) < Len(batch) /\ UNCHANGED <<batch, stored>>
          /\ \E outcome \in Answers!Outcomes \ {"delivered", "duplicate"} :
                Answers!Report(outcome)
      BY <2>4, <1>0, ReplyLengths DEF Answers!BeyondCap, Answers!CheckFails,
         Answers!Attempted, Answers!Outcomes
    <3> QED
      BY <2>2, <3>1
  <2>10. CASE Answers!Repeated
    <3>1. /\ step = "next" /\ Len(results) < Len(batch) /\ UNCHANGED <<batch, stored>>
          /\ Answers!Report("duplicate")
      BY <2>10, <1>0, ReplyLengths DEF Answers!Repeated
    <3>2. Answers!Again(Answers!At)
      BY <2>10 DEF Answers!Repeated, Answers!Before, Answers!Again, Answers!This
    <3> QED
      BY <2>2, <3>1, <3>2 DEF Answers!Outcomes
  <2>5. CASE Answers!Check
    <3>1. /\ step = "next" /\ Len(results) < Len(batch) /\ UNCHANGED <<batch, stored>>
          /\ \/ Answers!Report("duplicate") /\ stored[Answers!This] > 0
             \/ UNCHANGED results
      BY <2>5, <1>0, ReplyLengths DEF Answers!Check, Answers!Found, Answers!Attempted
    <3> QED
      BY <2>1, <2>2, <3>1 DEF Answers!Outcomes
  <2>6. CASE Answers!Unreached \/ Answers!TimedOut
    <3>1. /\ step \in {"checked", "waiting"}
          /\ Answers!Report("failed")
          /\ UNCHANGED <<batch, stored>>
      BY <2>6 DEF Answers!Unreached, Answers!TimedOut
    <3>2. Len(results) < Len(batch)
      BY <1>0, <3>1 DEF ReplyTypes, Posting
    <3> QED
      BY <2>2, <3>1, <3>2 DEF Answers!Outcomes
  <2>7. ASSUME NEW f \in flight, Answers!Answered(f) PROVE stored'[batch'[i]] > 0
    <3>1. /\ step = "waiting" /\ Answers!Report("delivered") /\ UNCHANGED <<batch, stored>>
          /\ f.reply = Answers!This /\ stored[f.reply] > 0
      BY <1>0, <2>7 DEF Answers!Answered, Answers!Mine, StoredFollows
    <3>2. Len(results) < Len(batch)
      BY <1>0, <3>1 DEF ReplyTypes, Posting
    <3> QED
      BY <2>2, <3>1, <3>2 DEF Answers!Outcomes
  <2>8. ASSUME NEW f \in flight, Answers!Refused(f) PROVE stored'[batch'[i]] > 0
    <3>1. /\ UNCHANGED <<batch, stored>>
          /\ (step = "waiting" /\ Answers!Report("failed")) \/ UNCHANGED results
      BY <2>8 DEF Answers!Refused, Answers!Mine
    <3>2. step = "waiting" => Len(results) < Len(batch)
      BY <1>0 DEF ReplyTypes, Posting
    <3> QED
      BY <2>1, <2>2, <3>1, <3>2 DEF Answers!Outcomes
  <2>9. CASE \/ Answers!Send \/ Answers!Done \/ UNCHANGED Answers!vars
             \/ \E f \in flight : Answers!StoreReply(f) \/ Answers!Mark(f) \/ Answers!Forget(f)
    BY <2>1, <2>9 DEF Answers!Send, Answers!Done, Answers!vars, Answers!StoreReply,
       Answers!Mark, Answers!Forget
  <2> QED
    BY <2>3, <2>4, <2>5, <2>6, <2>7, <2>8, <2>9, <2>10 DEF Answers!Next
<1> QED
  BY <1>1, <1>2 DEF Answers!LedgerIsTrue

LEMMA RepliesNext ==
    ASSUME Answers!RepliesConstants, ReplyInv, [Answers!Next]_(Answers!vars)
    PROVE  ReplyInv'
  BY StepTyped, StepOnce, StepFollows, StepLedger DEF ReplyInv

----------------------------------------------------------------------------
LEMMA RepliesHold == ASSUME ReplyInv PROVE Answers!RepliedOnce /\ Answers!LedgerIsTrue
BY DEF ReplyInv, ReplyTypes, Answers!TypeOK, Answers!RepliedOnce, Once

-----------------------------------------------------------------------------
(* The least of some numbers *)

\* Some number of a set is the least, since < is well founded on Nat;
LEMMA Least ==
    ASSUME NEW T \in SUBSET Nat, T # {}
    PROVE  \E m \in T : \A n \in T : m <= n
<1>1. PICK m \in T : \A n \in T : ~ (<<n, m>> \in OpToRel(<, Nat))
  BY NatLessThanWellFounded, WFMin
<1>2. \A n \in T : ~ (n < m)
  BY <1>1 DEF OpToRel
<1> QED
  BY <1>2
\* and some number of a bounded set is the greatest.
LEMMA Greatest ==
    ASSUME NEW b \in Nat, NEW T \in SUBSET (0..b), T # {}
    PROVE  \E m \in T : \A n \in T : n <= m
<1> DEFINE D == {b - n : n \in T}
<1>1. D \in SUBSET Nat /\ D # {}
  <2>1. PICK n \in T : TRUE
    OBVIOUS
  <2>2. b - n \in D
    OBVIOUS
  <2>3. \A k \in T : b - k \in Nat
    OBVIOUS
  <2> QED
    BY <2>2, <2>3
<1>2. PICK d \in D : \A e \in D : d <= e
  BY <1>1, Least
<1>3. PICK m \in T : d = b - m
  OBVIOUS
<1>4. ASSUME NEW n \in T PROVE n <= m
  <2>1. b - n \in D
    OBVIOUS
  <2>2. b - m <= b - n
    BY <1>2, <1>3, <2>1
  <2> QED
    BY <2>2
<1> QED
  BY <1>4

-----------------------------------------------------------------------------
(* The inbox and its bookmark (Inbox) *)

\* The instance has a copy of FiniteSets; the theorems are about the original.
LEMMA MailCount ==
    \A S : /\ Mail!Cardinality(S) = Cardinality(S)
           /\ Mail!IsFiniteSet(S) <=> IsFiniteSet(S)
BY DEF Mail!Cardinality, Cardinality, Mail!IsFiniteSet, IsFiniteSet

(* The order of messages. *)

\* The order of messages: by instant, then by id.
Newer(m, n) == m.at > n.at \/ (m.at = n.at /\ m.id > n.id)

LEMMA AboveIsNewer ==
    \A m, n : Mail!Above(<<m.at, m.id>>, <<n.at, n.id>>) <=> Newer(m, n)
BY DEF Mail!Above, Newer

LEMMA AboveKey ==
    \A m, k : Mail!Above(Mail!CursorKey(m), k) <=> (m.at > k[1] \/ (m.at = k[1] /\ m.id > k[2]))
BY DEF Mail!Above, Mail!CursorKey

LEMMA OrderOfMessages ==
    ASSUME Mail!InboxConstants
    PROVE  /\ \A m \in Mail!Message : m.at \in Nat /\ m.id \in Nat
           /\ \A m, n, l \in Mail!Message : Newer(m, n) /\ Newer(n, l) => Newer(m, l)
           /\ \A m \in Mail!Message : ~ Newer(m, m)
           /\ \A m, n \in Mail!Message : m = n \/ Newer(m, n) \/ Newer(n, m)
<1>1. \A m \in Mail!Message : m.at \in Nat /\ m.id \in Nat
  <2> SUFFICES ASSUME NEW m \in Mail!Message PROVE m.at \in Nat /\ m.id \in Nat
    OBVIOUS
  <2>1. PICK a, i : a = m.at /\ i = m.id
    OBVIOUS
  <2>2. a \in 1..LastInstant /\ i \in Ids
    BY <2>1, SMT DEF Mail!Message
  <2>3. Ids \subseteq Nat /\ LastInstant \in Nat
    BY MailCount DEF Mail!InboxConstants
  <2>4. a \in Nat /\ i \in Nat
    BY <2>2, <2>3
  <2> QED
    BY <2>1, <2>4
<1>2. ASSUME NEW m \in Mail!Message, NEW n \in Mail!Message, m.at = n.at,
             m.id = n.id PROVE m = n
  BY <1>2, SMT DEF Mail!Message
<1>3. \A m, n \in Mail!Message : m = n \/ Newer(m, n) \/ Newer(n, m)
  BY <1>1, <1>2 DEF Newer
<1> QED
  BY <1>1, <1>3 DEF Newer

LEMMA MessagesFinite == ASSUME Mail!InboxConstants PROVE IsFiniteSet(Mail!Message)
<1>1. IsFiniteSet((1..LastInstant) \X Ids)
  <2>1. LastInstant \in Int /\ 1 \in Int /\ IsFiniteSet(Ids)
    BY MailCount DEF Mail!InboxConstants
  <2>2. IsFiniteSet(1..LastInstant)
    BY <2>1, FS_Interval
  <2> QED
    BY <2>1, <2>2, FS_Product
<1> DEFINE f == [p \in (1..LastInstant) \X Ids |-> [at |-> p[1], id |-> p[2]]]
<1>2. ASSUME NEW p \in (1..LastInstant) \X Ids
      PROVE  f[p] \in Mail!Message
  <2>1. p[1] \in 1..LastInstant /\ p[2] \in Ids
    OBVIOUS
  <2>2. [at |-> p[1], id |-> p[2]] \in Mail!Message
    BY <2>1 DEF Mail!Message
  <2> QED
    BY <2>2
<1>3. ASSUME NEW m \in Mail!Message PROVE \E p \in (1..LastInstant) \X Ids : f[p] = m
  <2>1. m = [at |-> m.at, id |-> m.id] /\ m.at \in 1..LastInstant /\ m.id \in Ids
    BY SMT DEF Mail!Message
  <2>2. <<m.at, m.id>> \in (1..LastInstant) \X Ids
    BY <2>1
  <2>3. f[<<m.at, m.id>>] = [at |-> m.at, id |-> m.id]
    BY <2>2
  <2> QED
    BY <2>1, <2>2, <2>3
<1>4. f \in Surjection((1..LastInstant) \X Ids, Mail!Message)
  <2>1. f \in [(1..LastInstant) \X Ids -> Mail!Message]
    BY <1>2
  <2> HIDE DEF f
  <2> QED
    BY <1>3, <2>1 DEF Surjection
<1> QED
  BY <1>1, <1>4, FS_Surjection

\* Some message of a set is the newest.
LEMMA Newest ==
    ASSUME Mail!InboxConstants, NEW T \in SUBSET Mail!Message, T # {}
    PROVE  \E m \in T : \A n \in T : n = m \/ Newer(m, n)
<1> DEFINE over(m) == {n \in T : Newer(n, m)}
           D == {Cardinality(over(m)) : m \in T}
<1>1. \A m \in T : IsFiniteSet(over(m)) /\ Cardinality(over(m)) \in Nat
  BY MessagesFinite, FS_Subset, FS_CardinalityType
<1>2. D \in SUBSET Nat /\ D # {}
  BY <1>1
<1>3. PICK d \in D : \A e \in D : d <= e
  BY <1>2, Least
<1>4. PICK m \in T : d = Cardinality(over(m))
  OBVIOUS
<1>5. ASSUME NEW n \in T, Newer(n, m) PROVE FALSE
  <2>1. over(n) \subseteq over(m) /\ n \in over(m) /\ n \notin over(n)
    BY <1>5, OrderOfMessages
  <2>2. /\ Cardinality(over(n)) <= Cardinality(over(m))
        /\ Cardinality(over(n)) # Cardinality(over(m))
    BY <1>1, <2>1, FS_Subset
  <2>3. Cardinality(over(m)) <= Cardinality(over(n))
    BY <1>3, <1>4
  <2> QED
    BY <1>1, <2>2, <2>3
<1> QED
  BY <1>5, OrderOfMessages

\* Some message of a set is the oldest.
LEMMA Oldest ==
    ASSUME Mail!InboxConstants, NEW T \in SUBSET Mail!Message, T # {}
    PROVE  \E m \in T : Mail!Older(m, T) = {}
<1> DEFINE under(m) == {n \in T : Newer(m, n)}
           D == {Cardinality(under(m)) : m \in T}
<1>1. \A m \in T : IsFiniteSet(under(m)) /\ Cardinality(under(m)) \in Nat
  BY MessagesFinite, FS_Subset, FS_CardinalityType
<1>2. D \in SUBSET Nat /\ D # {}
  BY <1>1
<1>3. PICK d \in D : \A e \in D : d <= e
  BY <1>2, Least
<1>4. PICK m \in T : d = Cardinality(under(m))
  OBVIOUS
<1>5. ASSUME NEW n \in T, Newer(m, n) PROVE FALSE
  <2>1. under(n) \subseteq under(m) /\ n \in under(m) /\ n \notin under(n)
    BY <1>5, OrderOfMessages
  <2>2. /\ Cardinality(under(n)) <= Cardinality(under(m))
        /\ Cardinality(under(n)) # Cardinality(under(m))
    BY <1>1, <2>1, FS_Subset
  <2>3. Cardinality(under(m)) <= Cardinality(under(n))
    BY <1>3, <1>4
  <2> QED
    BY <1>1, <2>2, <2>3
<1>6. Mail!Older(m, T) = {}
  BY <1>5, AboveIsNewer DEF Mail!Older
<1> QED
  BY <1>6

\* A page of something has something on it.
LEMMA PageNotEmpty ==
    ASSUME Mail!InboxConstants, NEW found \in SUBSET Mail!Message, found # {}
    PROVE  Mail!PageOf(found) # {} /\ Mail!PageOf(found) \subseteq found
<1>1. PICK m \in found : Mail!Older(m, found) = {}
  BY Oldest
<1>2. Cardinality(Mail!Older(m, found)) < PageSize
  BY <1>1, FS_EmptySet, MailCount DEF Mail!InboxConstants
<1> QED
  BY <1>2, MailCount DEF Mail!PageOf

\* What is left over for a later page is newer than all that is on this one.
LEMMA LeftIsNewer ==
    ASSUME Mail!InboxConstants, NEW found \in SUBSET Mail!Message,
           NEW m \in found \ Mail!PageOf(found), NEW n \in Mail!PageOf(found)
    PROVE  Newer(m, n)
<1>1. m \in Mail!Message /\ n \in Mail!Message /\ n \in found /\ m # n
  BY MailCount DEF Mail!PageOf
<1>2. ASSUME Newer(n, m) PROVE FALSE
  <2>1. Mail!Older(m, found) \subseteq Mail!Older(n, found)
    BY <1>1, <1>2, AboveIsNewer, OrderOfMessages DEF Mail!Older
  <2>2. IsFiniteSet(Mail!Older(n, found))
    BY MessagesFinite, FS_Subset DEF Mail!Older
  <2>3. Cardinality(Mail!Older(m, found)) <= Cardinality(Mail!Older(n, found))
        /\ Cardinality(Mail!Older(m, found)) \in Nat /\ Cardinality(Mail!Older(n, found)) \in Nat
    BY <2>1, <2>2, FS_Subset, FS_CardinalityType
  <2>4. Cardinality(Mail!Older(n, found)) < PageSize /\ ~(Cardinality(Mail!Older(m, found)) < PageSize)
    BY MailCount DEF Mail!PageOf
  <2> QED
    BY <2>3, <2>4, MailCount DEF Mail!InboxConstants
<1> QED
  BY <1>1, <1>2, OrderOfMessages

\* The bookmark of an answer is the place of the newest of its messages.
LEMMA BookmarkOfAnswer ==
    ASSUME Mail!InboxConstants, NEW answer \in SUBSET Mail!Message, answer # {}, NEW since
    PROVE  \E n \in answer : /\ Mail!NextCursor(answer, since) = Mail!CursorKey(n)
                             /\ \A l \in answer : l = n \/ Newer(n, l)
<1> DEFINE top(m) == \A n \in answer : n = m \/ Mail!Above(<<m.at, m.id>>, <<n.at, n.id>>)
<1>1. \E m \in answer : top(m)
  BY Newest, AboveIsNewer
<1>2. PICK n : n = (CHOOSE m \in answer : top(m))
  OBVIOUS
<1>3. n \in answer /\ top(n)
  BY <1>1, <1>2
<1>4. Mail!NextCursor(answer, since) = Mail!CursorKey(n)
  BY <1>2 DEF Mail!NextCursor
<1>5. \A l \in answer : l = n \/ Newer(n, l)
  BY <1>3, AboveIsNewer
<1> QED
  BY <1>3, <1>4, <1>5

LEMMA AboveMessage ==
    ASSUME NEW m, NEW n
    PROVE  Mail!Above(Mail!CursorKey(m), Mail!CursorKey(n)) <=> Newer(m, n)
BY DEF Mail!Above, Mail!CursorKey, Newer

-----------------------------------------------------------------------------
(* The invariant *)

\* Messages, bookmarks and questions.
AskingTypes ==
    /\ instant \in 1..LastInstant
    /\ waiting \subseteq Mail!Message
    /\ asked \in [Sessions -> Mail!Question \cup {None}]
    /\ cursor \in [Sessions -> Mail!Bookmark \cup {None}]
    /\ shown \in [Sessions -> SUBSET Mail!Message]
    /\ excused \in [Sessions -> SUBSET Mail!Message]
\* The property.
PassedIsKnown ==
    \A s \in Sessions : \A m \in waiting :
        cursor[s] # None /\ ~Mail!Above(Mail!CursorKey(m), cursor[s]) => m \in shown[s] \cup excused[s]
\* A question under way found all that waits, but for what is excused and what
\* came in an instant after everything it found: the bookmark that its answer
\* sets cannot pass that.
AskedLately ==
    \A s \in Sessions : asked[s] # None =>
        /\ asked[s].since \in {None, cursor[s]}
        /\ \A n \in asked[s].found : n.at <= instant
        /\ \A m \in waiting \ asked[s].found :
              \/ m \in excused[s]
              \/ /\ \A n \in asked[s].found : n.at < m.at
                 /\ ~(asked[s].found = {} /\ asked[s].since = None)
\* Nothing waits that is of a later instant.
SentBefore == \A m \in waiting : m.at <= instant
\* The property, with what holds of the questions that will move a bookmark.
AskInv == AskingTypes /\ PassedIsKnown /\ AskedLately /\ SentBefore

LEMMA InboxHolds == AskInv => Mail!PassedWasShown
BY DEF AskInv, PassedIsKnown, Mail!PassedWasShown, Mail!Passed

LEMMA InboxInit == ASSUME Mail!InboxConstants PROVE Mail!Init => AskInv
BY MailCount DEF Mail!InboxConstants, Mail!Init, AskInv, AskingTypes, PassedIsKnown,
   AskedLately, SentBefore

\* Time passes, mail is read, or nothing happens.
LEMMA TimeKeeps ==
    ASSUME AskInv, instant' \in 1..LastInstant, instant <= instant',
           waiting' \subseteq waiting,
           UNCHANGED <<asked, cursor, shown, excused>>
    PROVE  AskInv'
<1>1. AskingTypes' /\ PassedIsKnown'
  BY DEF AskInv, AskingTypes, PassedIsKnown
<1>2. \A n \in Mail!Message : n.at \in 1..LastInstant
  BY SMT DEF Mail!Message
<1>3. instant \in Int /\ instant' \in Int
  BY DEF AskInv, AskingTypes
<1>4. \A n \in Mail!Message : n.at \in Int
  BY <1>2, <1>3
<1>5. SentBefore'
  BY <1>3, <1>4 DEF AskInv, AskingTypes, SentBefore
<1>6. AskedLately'
  <2> SUFFICES ASSUME NEW s \in Sessions, asked[s] # None
               PROVE  /\ asked[s].since \in {None, cursor[s]}
                      /\ \A n \in asked[s].found : n.at <= instant'
                      /\ \A m \in waiting' \ asked[s].found :
                            \/ m \in excused[s]
                            \/ /\ \A n \in asked[s].found : n.at < m.at
                               /\ ~(asked[s].found = {} /\ asked[s].since = None)
    BY DEF AskedLately
  <2>1. asked[s].found \subseteq Mail!Message
    BY DEF AskInv, AskingTypes, Mail!Question
  <2>2. \A n \in asked[s].found : n.at \in Int /\ n.at <= instant
    BY <1>4, <2>1 DEF AskInv, AskedLately
  <2>3. \A n \in asked[s].found : n.at <= instant'
    BY <1>3, <2>2
  <2> QED
    BY <2>3 DEF AskInv, AskedLately
<1> QED
  BY <1>1, <1>5, <1>6 DEF AskInv

LEMMA MailArrives ==
    ASSUME Mail!InboxConstants, AskInv, NEW id \in Ids, Mail!Arrive(id)
    PROVE  AskInv'
<1>1. PICK m : m = [at |-> instant, id |-> id]
  OBVIOUS
<1>2. /\ waiting' = waiting \cup {m} /\ UNCHANGED <<instant, asked, cursor, shown>>
      /\ excused' = [s \in Sessions |->
            IF \/ cursor[s] # None /\ ~Mail!Above(<<m.at, m.id>>, cursor[s])
               \/ asked[s] # None /\ asked[s].found = {} /\ asked[s].since = None
               \/ asked[s] # None /\ \E n \in asked[s].found : n.at = instant
            THEN excused[s] \cup {m} ELSE excused[s]]
  BY <1>1 DEF Mail!Arrive
<1>3. m \in Mail!Message /\ m.at = instant /\ m.id = id
  BY <1>1 DEF Mail!Message, AskInv, AskingTypes
<1>4. excused' \in [Sessions -> SUBSET Mail!Message] /\ \A s \in Sessions : excused[s] \subseteq excused'[s]
  BY <1>2, <1>3 DEF AskInv, AskingTypes
<1>5. AskingTypes'
  BY <1>2, <1>3, <1>4 DEF AskInv, AskingTypes
<1>6. instant \in Int
  BY DEF AskInv, AskingTypes
<1>7. SentBefore'
  BY <1>2, <1>3, <1>6 DEF AskInv, SentBefore
<1>8. PassedIsKnown'
  <2> SUFFICES ASSUME NEW s \in Sessions, NEW l \in waiting', cursor[s] # None,
                      ~Mail!Above(Mail!CursorKey(l), cursor[s])
               PROVE  l \in shown[s] \cup excused'[s]
    BY <1>2 DEF PassedIsKnown
  <2>1. CASE l \in waiting
    BY <1>4, <2>1 DEF AskInv, PassedIsKnown
  <2>2. CASE l = m
    BY <1>2, <2>2 DEF Mail!CursorKey
  <2> QED
    BY <1>2, <2>1, <2>2
<1>9. AskedLately'
  <2> SUFFICES ASSUME NEW s \in Sessions, asked[s] # None
               PROVE  /\ asked[s].since \in {None, cursor[s]}
                      /\ \A n \in asked[s].found : n.at <= instant
                      /\ \A l \in waiting' \ asked[s].found :
                            \/ l \in excused'[s]
                            \/ /\ \A n \in asked[s].found : n.at < l.at
                               /\ ~(asked[s].found = {} /\ asked[s].since = None)
    BY <1>2 DEF AskedLately
  <2>1. /\ asked[s].since \in {None, cursor[s]}
        /\ \A n \in asked[s].found : n.at <= instant
    BY DEF AskInv, AskedLately
  <2>2. ASSUME NEW l \in waiting, l \notin asked[s].found
        PROVE  \/ l \in excused'[s]
               \/ /\ \A n \in asked[s].found : n.at < l.at
                  /\ ~(asked[s].found = {} /\ asked[s].since = None)
    BY <1>4, <2>2 DEF AskInv, AskedLately
  <2>3. \/ m \in excused'[s]
        \/ /\ \A n \in asked[s].found : n.at < m.at
           /\ ~(asked[s].found = {} /\ asked[s].since = None)
    <3>1. CASE m \in excused'[s]
      BY <3>1
    <3>2. CASE m \notin excused'[s]
      <4>1. /\ ~(asked[s].found = {} /\ asked[s].since = None)
            /\ \A n \in asked[s].found : n.at # instant
        BY <1>2, <3>2
      <4>2. \A n \in asked[s].found : n.at \in Int
        <5>1. asked[s].found \subseteq Mail!Message
          BY DEF AskInv, AskingTypes, Mail!Question
        <5> QED
          BY <5>1, OrderOfMessages
      <4>3. \A n \in asked[s].found : n.at < instant
        BY <1>6, <2>1, <4>1, <4>2
      <4> QED
        BY <1>3, <4>1, <4>3
    <3> QED
      BY <3>1, <3>2
  <2> QED
    BY <1>2, <2>1, <2>2, <2>3
<1> QED
  BY <1>5, <1>7, <1>8, <1>9 DEF AskInv

LEMMA AskKeeps ==
    ASSUME AskInv, NEW s \in Sessions, NEW view, NEW since \in {None, cursor[s]},
           Mail!Ask(s, view, since)
    PROVE  AskInv'
<1>1. PICK q : q = [view |-> view, since |-> IF view = "full" THEN None ELSE since,
                    found |-> waiting]
  OBVIOUS
<1>2. /\ view \in InboxViews /\ asked' = [asked EXCEPT ![s] = q]
      /\ UNCHANGED <<instant, waiting, cursor, shown, excused>>
  BY <1>1 DEF Mail!Ask
<1>3. q \in Mail!Question /\ q.found = waiting /\ q.since \in {None, cursor[s]}
  BY <1>1, <1>2 DEF Mail!Question, AskInv, AskingTypes
<1>4. /\ asked' \in [Sessions -> Mail!Question \cup {None}] /\ asked'[s] = q
      /\ \A t \in Sessions \ {s} : asked'[t] = asked[t]
  BY <1>2, <1>3 DEF AskInv, AskingTypes
<1>5. AskingTypes' /\ PassedIsKnown' /\ SentBefore'
  BY <1>2, <1>4 DEF AskInv, AskingTypes, PassedIsKnown, SentBefore
<1>6. AskedLately'
  BY <1>2, <1>3, <1>4 DEF AskInv, AskedLately, SentBefore
<1> QED
  BY <1>5, <1>6 DEF AskInv

\* After an answer, mail that is passed was shown, or told of by a count, or
\* came while the answer was made: of what the hub found, and of what came since.
LEMMA AnswerPasses ==
    ASSUME Mail!InboxConstants, AskInv, NEW s \in Sessions, asked[s] # None,
           NEW answer, NEW whole \in BOOLEAN,
           answer = IF whole THEN Mail!Since(asked[s].found, asked[s].since)
                    ELSE Mail!PageOf(Mail!Since(asked[s].found, asked[s].since)),
           NEW m \in waiting, ~Mail!Above(Mail!CursorKey(m), Mail!NextCursor(answer, asked[s].since))
    PROVE  m \in answer \cup shown[s] \cup excused[s]
<1>1. PICK found, since : found = asked[s].found /\ since = asked[s].since
  OBVIOUS
<1>2. PICK new : new = Mail!Since(found, since)
  OBVIOUS
<1>3. found \subseteq Mail!Message /\ since \in {None, cursor[s]} /\ m \in Mail!Message
  BY <1>1 DEF AskInv, AskingTypes, AskedLately, Mail!Question
<1>4. new \subseteq found /\ new \in SUBSET Mail!Message
  BY <1>2, <1>3 DEF Mail!Since
<1>5. answer \subseteq new /\ (new # {} => answer # {})
  BY <1>1, <1>2, <1>4, PageNotEmpty, MailCount DEF Mail!PageOf
<1>6. ASSUME answer # {}
      PROVE  \E n \in answer : ~Newer(m, n) /\ \A l \in answer : l = n \/ Newer(n, l)
  <2>1. PICK n \in answer : /\ Mail!NextCursor(answer, since) = Mail!CursorKey(n)
                            /\ \A l \in answer : l = n \/ Newer(n, l)
    BY <1>4, <1>5, <1>6, BookmarkOfAnswer
  <2>2. ~Newer(m, n)
    BY <1>1, <2>1, AboveMessage
  <2> QED
    BY <2>1, <2>2
<1>7. ASSUME since # None,
             ~Mail!Above(Mail!CursorKey(m), since) PROVE m \in shown[s] \cup excused[s]
  BY <1>3, <1>7 DEF AskInv, PassedIsKnown
<1>8. CASE m \in new
  <2>1. PICK n \in answer : ~Newer(m, n)
    BY <1>5, <1>6, <1>8
  <2>2. CASE whole
    BY <1>1, <1>2, <1>8, <2>2
  <2>3. CASE ~whole
    <3>1. answer = Mail!PageOf(new)
      BY <1>1, <1>2, <2>3
    <3> QED
      BY <1>4, <1>8, <2>1, <3>1, LeftIsNewer
  <2> QED
    BY <2>2, <2>3
<1>9. CASE m \in found /\ m \notin new
  <2>1. since # None /\ ~Mail!Above(Mail!CursorKey(m), since)
    BY <1>2, <1>9 DEF Mail!Since
  <2> QED
    BY <1>7, <2>1
<1>10. CASE m \notin found
  <2>1. \/ m \in excused[s]
        \/ (\A n \in found : n.at < m.at) /\ ~(found = {} /\ since = None)
    BY <1>1, <1>10 DEF AskInv, AskedLately
  <2>2. ASSUME \A n \in found : n.at < m.at, ~(found = {} /\ since = None)
        PROVE  m \in shown[s] \cup excused[s]
    <3>1. answer = {}
      <4>1. ASSUME NEW n \in answer, ~Newer(m, n) PROVE FALSE
        <5>1. n \in found /\ n \in Mail!Message
          BY <1>3, <1>4, <1>5
        <5>2. n.at < m.at /\ n.at \in Nat /\ m.at \in Nat
          BY <1>3, <2>2, <5>1, OrderOfMessages
        <5> QED
          BY <4>1, <5>2 DEF Newer
      <4> QED
        BY <1>6, <4>1
    <3>2. since # None
      <4>1. new = {}
        BY <1>5, <3>1
      <4> QED
        BY <1>2, <2>2, <4>1 DEF Mail!Since
    <3>3. Mail!NextCursor(answer, since) = since
      BY <3>1, <3>2 DEF Mail!NextCursor
    <3> QED
      BY <1>1, <1>7, <3>2, <3>3
  <2> QED
    BY <2>1, <2>2
<1> QED
  BY <1>8, <1>9, <1>10

LEMMA NextBookmark ==
    ASSUME Mail!InboxConstants, AskingTypes, NEW answer \in SUBSET Mail!Message,
           NEW since \in Mail!Bookmark \cup {None}
    PROVE  Mail!NextCursor(answer, since) \in Mail!Bookmark
<1>1. CASE answer # {}
  <2>1. PICK n \in answer : Mail!NextCursor(answer, since) = Mail!CursorKey(n)
    BY <1>1, BookmarkOfAnswer
  <2>2. n.at \in 1..LastInstant /\ n.id \in Ids
    BY SMT DEF Mail!Message
  <2> QED
    BY <2>1, <2>2 DEF Mail!CursorKey, Mail!Bookmark
<1>2. CASE answer = {}
  BY <1>2 DEF Mail!NextCursor, Mail!Bookmark, AskingTypes
<1> QED
  BY <1>1, <1>2

LEMMA AnswerKeeps ==
    ASSUME Mail!InboxConstants, AskInv, NEW s \in Sessions, Mail!Answer(s)
    PROVE  AskInv'
<1>1. PICK q, new : q = asked[s] /\ new = Mail!Since(q.found, q.since)
  OBVIOUS
<1>2. PICK answer : answer = IF q.view = "count" THEN new ELSE Mail!PageOf(new)
  OBVIOUS
<1>3. /\ q # None
      /\ cursor' = IF q.view = "full" THEN cursor
                   ELSE [cursor EXCEPT ![s] = Mail!NextCursor(answer, q.since)]
      /\ shown' = IF q.view = "count" THEN shown ELSE [shown EXCEPT ![s] = @ \cup answer]
      /\ excused' = IF q.view = "count" THEN [excused EXCEPT ![s] = @ \cup answer] ELSE excused
      /\ asked' = [asked EXCEPT ![s] = None]
      /\ UNCHANGED <<instant, waiting>>
  BY <1>1, <1>2 DEF Mail!Answer
<1>4. q \in Mail!Question /\ q.found \subseteq Mail!Message /\ q.since \in Mail!Bookmark \cup {None}
  BY <1>1, <1>3 DEF AskInv, AskingTypes, Mail!Question
<1>5. answer \in SUBSET Mail!Message
  BY <1>1, <1>2, <1>4, MailCount DEF Mail!Since, Mail!PageOf
<1>6. Mail!NextCursor(answer, q.since) \in Mail!Bookmark
  BY <1>4, <1>5, NextBookmark DEF AskInv
<1>7. AskingTypes'
  BY <1>3, <1>5, <1>6 DEF AskInv, AskingTypes
<1>8. /\ asked'[s] = None /\ \A t \in Sessions \ {s} : asked'[t] = asked[t] /\ cursor'[t] = cursor[t]
      /\ \A t \in Sessions : shown[t] \subseteq shown'[t] /\ excused[t] \subseteq excused'[t]
      /\ answer \subseteq shown'[s] \cup excused'[s]
  BY <1>3 DEF AskInv, AskingTypes
<1>9. AskedLately' /\ SentBefore'
  BY <1>3, <1>8 DEF AskInv, AskedLately, SentBefore
<1>10. ASSUME NEW m \in waiting, cursor'[s] # None,
              ~Mail!Above(Mail!CursorKey(m), cursor'[s])
       PROVE  m \in shown'[s] \cup excused'[s]
  <2>1. CASE q.view = "full"
    BY <1>3, <1>8, <1>10, <2>1 DEF AskInv, PassedIsKnown
  <2>2. CASE q.view # "full"
    <3>1. cursor'[s] = Mail!NextCursor(answer, q.since)
      BY <1>3, <2>2 DEF AskInv, AskingTypes
    <3>2. PICK whole \in BOOLEAN :
            answer = IF whole THEN Mail!Since(asked[s].found, asked[s].since)
                     ELSE Mail!PageOf(Mail!Since(asked[s].found, asked[s].since))
      <4>1. CASE q.view = "count"
        BY <1>1, <1>2, <4>1
      <4>2. CASE q.view # "count"
        BY <1>1, <1>2, <4>2
      <4> QED
        BY <4>1, <4>2
    <3>3. m \in answer \cup shown[s] \cup excused[s]
      BY <1>1, <1>3, <1>10, <3>1, <3>2, AnswerPasses
    <3> QED
      BY <1>8, <3>3
  <2> QED
    BY <2>1, <2>2
<1>11. PassedIsKnown'
  BY <1>3, <1>8, <1>10 DEF AskInv, PassedIsKnown
<1> QED
  BY <1>7, <1>9, <1>11 DEF AskInv

LEMMA AnswerOldKeeps ==
    ASSUME AskInv, NEW s \in Sessions, Mail!AnswerOld(s)
    PROVE  AskInv'
<1>1. PICK q : q = asked[s]
  OBVIOUS
<1>2. /\ q # None
      /\ cursor' = IF q.view = "full" THEN cursor ELSE [cursor EXCEPT ![s] = None]
      /\ shown' = IF q.view = "count" THEN shown ELSE [shown EXCEPT ![s] = @ \cup q.found]
      /\ asked' = [asked EXCEPT ![s] = None]
      /\ UNCHANGED <<instant, waiting, excused>>
  BY <1>1 DEF Mail!AnswerOld
<1>3. q.found \subseteq Mail!Message
  BY <1>1, <1>2 DEF AskInv, AskingTypes, Mail!Question
<1>4. AskingTypes'
  BY <1>2, <1>3 DEF AskInv, AskingTypes
<1>5. /\ asked'[s] = None /\ cursor'[s] \in {None, cursor[s]}
      /\ \A t \in Sessions \ {s} : asked'[t] = asked[t] /\ cursor'[t] = cursor[t]
      /\ \A t \in Sessions : shown[t] \subseteq shown'[t]
  BY <1>2 DEF AskInv, AskingTypes
<1> QED
  BY <1>2, <1>4, <1>5 DEF AskInv, AskedLately, SentBefore, PassedIsKnown

LEMMA InboxNext ==
    ASSUME Mail!InboxConstants, AskInv, [Mail!Next]_(Mail!vars)
    PROVE  AskInv'
<1>1. instant \in 1..LastInstant /\ instant \in Int /\ LastInstant \in Int
  BY MailCount DEF AskInv, AskingTypes, Mail!InboxConstants
<1>2. CASE UNCHANGED Mail!vars \/ Mail!Upgrade
  BY <1>1, <1>2, TimeKeeps DEF Mail!vars, Mail!Upgrade
<1>3. CASE Mail!Tick
  <2>1. instant' \in 1..LastInstant /\ instant <= instant'
    BY <1>1, <1>3 DEF Mail!Tick
  <2> QED
    BY <1>3, <2>1, TimeKeeps DEF Mail!Tick
<1>4. ASSUME NEW m \in waiting, Mail!Read(m) PROVE AskInv'
  <2>1. instant' \in 1..LastInstant /\ instant <= instant'
    BY <1>1, <1>4 DEF Mail!Read
  <2> QED
    BY <1>4, <2>1, TimeKeeps DEF Mail!Read
<1>5. ASSUME NEW id \in Ids, Mail!Arrive(id) PROVE AskInv'
  BY <1>5, MailArrives
<1>6. ASSUME NEW s \in Sessions,
             Mail!CheckInbox(s) \/ Mail!UnreadCount(s) \/ Mail!CheckThreads(s) \/ Mail!CliInbox(s)
      PROVE  AskInv'
  BY <1>6, AskKeeps DEF Mail!CheckInbox, Mail!UnreadCount, Mail!CheckThreads, Mail!CliInbox
<1>7. ASSUME NEW s \in Sessions, Mail!Answer(s) \/ Mail!AnswerOld(s) PROVE AskInv'
  BY <1>7, AnswerKeeps, AnswerOldKeeps
<1> QED
  BY <1>2, <1>3, <1>4, <1>5, <1>6, <1>7 DEF Mail!Next

-----------------------------------------------------------------------------
(* The relay (Relay) *)

\* The updates that set a head row's line; mail does not.
Lines(u) == {i \in DOMAIN u : u[i] # "mail"}
\* The last of them.
Last(u, i) == i \in Lines(u) /\ \A j \in Lines(u) : j <= i

LEMMA AfterNoLine ==
    ASSUME NEW says, NEW u, Lines(u) = {}
    PROVE  Line!After(says, u) = says
BY DEF Line!After, Lines

LEMMA LastLine ==
    ASSUME NEW u \in Seq(Line!Update), Lines(u) # {}
    PROVE  \E i : Last(u, i)
<1>1. Lines(u) \in SUBSET (0..Len(u)) /\ Len(u) \in Nat
  BY DEF Lines
<1> QED
  BY <1>1, Greatest DEF Last

LEMMA AfterLast ==
    ASSUME NEW u \in Seq(Line!Update), NEW says, NEW i, Last(u, i)
    PROVE  Line!After(says, u) = u[i]
<1> DEFINE lines == {k \in DOMAIN u : u[k] # "mail"}
           Top(k) == k \in lines /\ \A j \in lines : j <= k
<1>1. lines # {} /\ Line!After(says, u) = u[CHOOSE k \in lines : \A j \in lines : j <= k]
  BY DEF Line!After, Last, Lines
<1>2. i \in lines /\ \A j \in lines : j <= i
  BY DEF Last, Lines
<1>3. (CHOOSE k \in lines : \A j \in lines : j <= k) \in lines
      /\ \A j \in lines : j <= (CHOOSE k \in lines : \A j_1 \in lines : j_1 <= k)
  BY <1>2
<1>4. (CHOOSE k \in lines : \A j \in lines : j <= k) = i
  <2>1. lines \subseteq Int
    OBVIOUS
  <2>2. PICK k : k = (CHOOSE l \in lines : \A j \in lines : j <= l)
    OBVIOUS
  <2>3. k \in lines /\ \A j \in lines : j <= k
    BY <1>3, <2>2
  <2>4. k \in Int /\ i \in Int /\ k <= i /\ i <= k
    BY <1>2, <2>1, <2>3
  <2>5. k = i
    BY <2>4
  <2> QED
    BY <2>2, <2>5
<1> QED
  BY <1>1, <1>4

LEMMA AfterState ==
    ASSUME NEW u \in Seq(Line!Update), NEW says \in Line!State
    PROVE  Line!After(says, u) \in Line!State
<1>1. CASE Lines(u) = {}
  BY <1>1, AfterNoLine
<1>2. CASE Lines(u) # {}
  <2>1. PICK i : Last(u, i)
    BY <1>2, LastLine
  <2>2. u[i] \in Line!State
    BY <2>1 DEF Last, Lines, Line!Update
  <2> QED
    BY <2>1, <2>2, AfterLast
<1> QED
  BY <1>1, <1>2

\* A line says the same whatever was said before it.
LEMMA AfterALine ==
    ASSUME NEW u \in Seq(Line!Update), Lines(u) # {}, NEW says, NEW other
    PROVE  Line!After(says, u) = Line!After(other, u)
BY LastLine, AfterLast

LEMMA AfterNothing == \A says : Line!After(says, <<>>) = says
BY DEF Line!After

LEMMA AfterOne == \A says, m : Line!After(says, <<m>>) = IF m = "mail" THEN says ELSE m
<1> TAKE says, m
<1>1. CASE m = "mail"
  <2>1. Lines(<<m>>) = {}
    BY <1>1 DEF Lines
  <2> QED
    BY <1>1, <2>1, AfterNoLine
<1>2. CASE m # "mail"
  <2>1. {i \in DOMAIN <<m>> : <<m>>[i] # "mail"} = {1}
    BY <1>2
  <2>2. (CHOOSE i \in {1} : \A j \in {1} : j <= i) = 1
    OBVIOUS
  <2>3. Line!After(says, <<m>>) = <<m>>[1]
    BY <2>1, <2>2 DEF Line!After
  <2> QED
    BY <1>2, <2>3
<1> QED
  BY <1>1, <1>2

LEMMA AfterAppend ==
    ASSUME NEW u \in Seq(Line!Update), NEW m \in Line!Update, NEW says
    PROVE  Line!After(says, Append(u, m)) = IF m = "mail" THEN Line!After(says, u) ELSE m
<1> DEFINE v == Append(u, m)
<1>1. /\ v \in Seq(Line!Update) /\ Len(v) = Len(u) + 1 /\ Len(u) \in Nat /\ v[Len(u) + 1] = m
      /\ DOMAIN v = 1..(Len(u) + 1) /\ DOMAIN u = 1..Len(u)
      /\ \A i \in 1..Len(u) : v[i] = u[i]
  OBVIOUS
<1> HIDE DEF v
<1>2. CASE m # "mail"
  <2>1. Last(v, Len(u) + 1)
    BY <1>1, <1>2 DEF Last, Lines
  <2> QED
    BY <1>1, <1>2, <2>1, AfterLast DEF v
<1>3. CASE m = "mail"
  <2>1. Lines(v) = Lines(u)
    BY <1>1, <1>3 DEF Lines
  <2>2. CASE Lines(u) = {}
    BY <1>3, <2>1, <2>2, AfterNoLine DEF v
  <2>3. CASE Lines(u) # {}
    <3>1. PICK i : Last(u, i)
      BY <2>3, LastLine
    <3>2. Last(v, i) /\ v[i] = u[i]
      BY <1>1, <2>1, <3>1 DEF Last, Lines
    <3> QED
      BY <1>1, <1>3, <3>1, <3>2, AfterLast DEF v
  <2> QED
    BY <2>2, <2>3
<1> QED
  BY <1>2, <1>3

LEMMA AfterHead ==
    ASSUME NEW u \in Seq(Line!Update), u # <<>>, NEW says
    PROVE  Line!After(says, u) = Line!After(IF Head(u) = "mail" THEN says ELSE Head(u), Tail(u))
<1> DEFINE v == Tail(u)  said == IF Head(u) = "mail" THEN says ELSE Head(u)
<1>1. /\ v \in Seq(Line!Update) /\ Len(u) = Len(v) + 1 /\ Len(v) \in Nat /\ u[1] = Head(u)
      /\ DOMAIN u = 1..(Len(v) + 1) /\ DOMAIN v = 1..Len(v)
      /\ \A i \in 1..Len(v) : v[i] = u[i + 1]
  OBVIOUS
<1> HIDE DEF v, said
<1>2. \A i \in 1..Len(v) : i \in Lines(v) <=> i + 1 \in Lines(u)
  BY <1>1 DEF Lines
<1>3. 1 \in Lines(u) <=> Head(u) # "mail"
  BY <1>1 DEF Lines
<1>4. \A k \in Lines(u) : k = 1 \/ (k - 1 \in Lines(v) /\ k - 1 \in Nat)
  BY <1>1 DEF Lines
<1>5. CASE Lines(v) # {}
  <2>1. PICK i : Last(v, i)
    BY <1>1, <1>5, LastLine
  <2>2. i \in 1..Len(v)
    BY <1>1, <2>1 DEF Last, Lines
  <2>3. i + 1 \in Lines(u)
    BY <1>2, <2>1, <2>2 DEF Last
  <2>4. ASSUME NEW k \in Lines(u) PROVE k <= i + 1
    <3>1. k \in Nat
      BY <1>1 DEF Lines
    <3>2. k = 1 \/ k - 1 <= i
      BY <1>4, <2>1 DEF Last
    <3> QED
      BY <2>2, <3>1, <3>2
  <2>5. Last(u, i + 1)
    BY <2>3, <2>4 DEF Last
  <2>6. Line!After(says, u) = u[i + 1] /\ Line!After(said, v) = v[i]
    BY <1>1, <2>1, <2>5, AfterLast
  <2> QED
    BY <1>1, <2>2, <2>6 DEF v, said
<1>6. CASE Lines(v) = {} /\ Head(u) # "mail"
  <2>1. Last(u, 1)
    BY <1>3, <1>4, <1>6 DEF Last
  <2>2. Line!After(says, u) = u[1]
    BY <2>1, AfterLast
  <2> QED
    BY <1>1, <1>6, <2>2, AfterNoLine DEF v, said
<1>7. CASE Lines(v) = {} /\ Head(u) = "mail"
  <2>1. Lines(u) = {}
    BY <1>3, <1>4, <1>7
  <2> QED
    BY <1>7, <2>1, AfterNoLine DEF v, said
<1> QED
  BY <1>5, <1>6, <1>7

\* The updates, and where each page is.
PageTypes ==
    /\ state \in Line!State
    /\ saying \in Line!Update \cup {None}
    /\ onItsWay \in [Pages -> Seq(Line!Update)]
    /\ feed \in [Pages -> Seq(Line!Update)]
    /\ head \in [Pages -> Line!State]
    /\ pageAt \in [Pages -> {"away", "asked", "greeted", "in"}]
    /\ missed \in [Pages -> BOOLEAN]
\* What the thread says of its state is the state it is in.
Current == saying \in Line!State => saying = state
\* Applied in order, what is on its way to a page ends in the state; and if a
\* line is among what is posted, it does so whatever the queue held, so that
\* dropping from the queue loses nothing.
PageRight(p) ==
    /\ pageAt[p] \in {"asked", "greeted"} => onItsWay[p] = <<>>
    /\ pageAt[p] \in {"greeted", "in"} /\ ~missed[p] => Line!Heading(p) = state
    /\ pageAt[p] = "in" /\ Lines(onItsWay[p]) # {} =>
          \A s \in Line!State : Line!After(Line!After(s, onItsWay[p]), Line!Saying) = state
\* The property, of greeted pages too, over every state of a queue.
LineInv == PageTypes /\ Current /\ \A p \in Pages : PageRight(p)

LEMMA RelayInit == ASSUME Line!RelayConstants PROVE Line!Init => LineInv
BY DEF Line!RelayConstants, Line!Init, LineInv, PageTypes, Current, PageRight, Line!State,
   Line!Update

LEMMA HeadingThen ==
    ASSUME NEW p, NEW h, NEW f, NEW q, NEW s,
           head'[p] = h, feed'[p] = f, onItsWay'[p] = q, Line!Saying' = s
    PROVE  Line!Heading(p)' = Line!After(Line!After(Line!After(h, f), q), s)
BY DEF Line!Heading, Line!After

LEMMA ToldThen ==
    ASSUME NEW p, NEW y, NEW q, NEW s, onItsWay'[p] = q, Line!Saying' = s
    PROVE  Line!After(Line!After(y, onItsWay[p]), Line!Saying)' = Line!After(Line!After(y, q), s)
BY DEF Line!After

LEMMA PageKept ==
    ASSUME NEW p, PageRight(p), UNCHANGED <<state, saying>>,
           pageAt[p]' = pageAt[p], onItsWay[p]' = onItsWay[p], feed[p]' = feed[p],
           head[p]' = head[p], missed[p]' = missed[p]
    PROVE  PageRight(p)'
<1>1. Line!Saying' = Line!Saying
  BY DEF Line!Saying
<1>2. Line!Heading(p)' = Line!Heading(p)
  BY <1>1 DEF Line!Heading, Line!After
<1>3. ASSUME NEW y
      PROVE Line!After(Line!After(y, onItsWay[p]), Line!Saying)' = Line!After(Line!After(y, onItsWay[p]), Line!Saying)
  BY <1>1 DEF Line!After
<1>4. Lines(onItsWay[p])' = Lines(onItsWay[p])
  BY DEF Lines
<1> QED
  BY <1>2, <1>3, <1>4 DEF PageRight

LEMMA StateKept ==
    ASSUME LineInv, UNCHANGED <<state, saying, Line!watchers>>
    PROVE  LineInv'
<1>1. PageTypes' /\ Current'
  BY DEF LineInv, PageTypes, Current, Line!watchers
<1> QED
  BY <1>1, PageKept DEF LineInv, Line!watchers

\* the state changes while nothing is being said
LEMMA StateSet ==
    ASSUME Line!RelayConstants, LineInv, saying = None, NEW s \in Line!State,
           Line!SetState(s), UNCHANGED Line!watchers
    PROVE  LineInv'
<1>1. None \notin Line!Update
  BY DEF Line!RelayConstants, Line!Update, Line!State
<1>2. Line!Saying = <<>> /\ (s = state => Line!Saying' = <<>>) /\ (s # state => Line!Saying' = <<s>>)
  BY <1>1 DEF Line!Saying, Line!SetState, Line!Update
<1>3. PageTypes' /\ Current'
  BY <1>1 DEF LineInv, PageTypes, Current, Line!SetState, Line!watchers, Line!Update
<1>4. \A y : Line!After(y, Line!Saying') = IF s = state THEN y ELSE s
  <2>1. s # "mail"
    BY DEF Line!State
  <2> QED
    BY <1>2, <2>1, AfterNothing, AfterOne
<1>5. \A y : Line!After(y, Line!Saying) = y
  BY <1>2, AfterNothing
<1>6. state' = s
  BY DEF Line!SetState
<1>7. ASSUME NEW p \in Pages PROVE PageRight(p)'
  <2>1. ASSUME pageAt[p] \in {"greeted", "in"}, ~missed[p]
        PROVE  Line!Heading(p)' = s
    <3>1. Line!After(Line!After(Line!After(head[p], feed[p]), onItsWay[p]), Line!Saying) = state
      BY <2>1 DEF LineInv, PageRight, Line!Heading
    <3>2. Line!After(Line!After(Line!After(head[p], feed[p]), onItsWay[p]), Line!Saying') = s
      BY <1>4, <1>5, <3>1
    <3> QED
      BY <3>2 DEF Line!Heading, Line!watchers, Line!After
  <2>2. ASSUME pageAt[p] = "in", Lines(onItsWay[p]) # {}, NEW y \in Line!State
        PROVE  Line!After(Line!After(y, onItsWay[p]), Line!Saying)' = s
    <3>1. Line!After(Line!After(y, onItsWay[p]), Line!Saying) = state
      BY <2>2 DEF LineInv, PageRight
    <3>2. Line!After(Line!After(y, onItsWay[p]), Line!Saying') = s
      BY <1>4, <1>5, <3>1
    <3> QED
      BY <3>2 DEF Line!watchers, Line!After
  <2> QED
    BY <1>6, <2>1, <2>2 DEF LineInv, PageRight, Line!watchers, Lines
<1> QED
  BY <1>3, <1>7 DEF LineInv

LEMMA MailRead ==
    ASSUME Line!RelayConstants, LineInv, Line!ReadMail
    PROVE  LineInv'
<1>1. /\ saying = None
      /\ saying' = "mail"
      /\ state' = state
      /\ UNCHANGED Line!watchers
      /\ None # "mail"
  BY DEF Line!ReadMail, Line!Thread, Line!RelayConstants
<1>2. PageTypes' /\ Current'
  BY <1>1 DEF LineInv, PageTypes, Current, Line!Update, Line!watchers, Line!State
<1>3. Line!Saying = <<>> /\ Line!Saying' = <<"mail">>
  BY <1>1 DEF Line!Saying
<1>4. \A y : Line!After(y, Line!Saying') = y /\ Line!After(y, Line!Saying) = y
  BY <1>3, AfterNothing, AfterOne
<1>5. ASSUME NEW p \in Pages PROVE PageRight(p)'
  <2>1. Line!Heading(p)' = Line!Heading(p)
    <3>1. Line!After(Line!After(Line!After(head[p], feed[p]), onItsWay[p]), Line!Saying') = Line!Heading(p)
      BY <1>4 DEF Line!Heading
    <3> QED
      BY <1>1, <3>1 DEF Line!Heading, Line!watchers, Line!After
  <2>2. ASSUME NEW y \in Line!State
        PROVE  Line!After(Line!After(y, onItsWay[p]), Line!Saying)' = Line!After(Line!After(y, onItsWay[p]), Line!Saying)
    <3>1. Line!After(Line!After(y, onItsWay[p]), Line!Saying') = Line!After(Line!After(y, onItsWay[p]), Line!Saying)
      BY <1>4
    <3> QED
      BY <1>1, <3>1 DEF Line!watchers, Line!After
  <2>3. Lines(onItsWay[p])' = Lines(onItsWay[p])
    BY <1>1 DEF Line!watchers, Lines
  <2> QED
    BY <1>1, <2>1, <2>2, <2>3 DEF LineInv, PageRight, Line!watchers
<1> QED
  BY <1>2, <1>5 DEF LineInv

LEMMA AfterLine ==
    ASSUME NEW p \in Pages, LineInv
    PROVE  /\ Line!After(head[p], feed[p]) \in Line!State
           /\ Line!After(Line!After(head[p], feed[p]), onItsWay[p]) \in Line!State
BY AfterState DEF LineInv, PageTypes

LEMMA FannedOut ==
    ASSUME Line!RelayConstants, LineInv, Line!Fanout
    PROVE  LineInv'
<1>1. None \notin Line!Update
  BY DEF Line!RelayConstants, Line!Update, Line!State
<1>0. PICK m : m = saying
  OBVIOUS
<1>2. m \in Line!Update /\ saying' = None /\ state' = state /\ (m # "mail" => m = state)
  BY <1>0 DEF Line!Fanout, LineInv, PageTypes, Current, Line!Update
<1>3. PageTypes'
  BY <1>0, <1>2 DEF LineInv, PageTypes, Line!Fanout
<1>4. Current'
  BY <1>1, <1>2 DEF Current, Line!Update
<1>5. Line!Saying = <<m>> /\ Line!Saying' = <<>>
  BY <1>0, <1>1, <1>2 DEF Line!Saying
<1>6. \A y : Line!After(y, Line!Saying') = y /\ Line!After(y, Line!Saying) = IF m = "mail" THEN y ELSE state
  BY <1>2, <1>5, AfterNothing, AfterOne
<1>7. ASSUME NEW p \in Pages PROVE PageRight(p)'
  <2>1. CASE pageAt[p] = "in"
    <3>0. PICK q : q = Append(onItsWay[p], m)
      OBVIOUS
    <3>1. onItsWay'[p] = q /\ onItsWay[p] \in Seq(Line!Update)
          /\ head'[p] = head[p]
          /\ feed'[p] = feed[p]
          /\ pageAt'[p] = pageAt[p]
          /\ missed'[p] = missed[p]
      BY <1>0, <2>1, <3>0 DEF Line!Fanout, LineInv, PageTypes
    <3>2. \A y : Line!After(y, q) = Line!After(Line!After(y, onItsWay[p]), Line!Saying)
      BY <1>2, <1>6, <3>0, <3>1, AfterAppend
    <3>3. Line!Heading(p)' = Line!Heading(p)
      <4>1. Line!After(Line!After(Line!After(head[p], feed[p]), q), Line!Saying') = Line!Heading(p)
        BY <1>6, <3>2 DEF Line!Heading
      <4> QED
        BY <3>1, <4>1, HeadingThen
    <3>4. ASSUME NEW y \in Line!State, Lines(q) # {}
          PROVE  Line!After(Line!After(y, onItsWay[p]), Line!Saying)' = state
      <4>1. Line!After(Line!After(y, onItsWay[p]), Line!Saying) = state
        <5>1. CASE m # "mail"
          BY <1>6, <5>1
        <5>2. CASE m = "mail"
          <6>1. Lines(onItsWay[p]) # {}
            BY <3>0, <3>1, <3>4, <5>2 DEF Lines
          <6> QED
            BY <2>1, <6>1 DEF LineInv, PageRight
        <5> QED
          BY <5>1, <5>2
      <4>2. Line!After(Line!After(y, q), Line!Saying') = state
        BY <1>6, <3>2, <4>1
      <4> QED
        BY <3>1, <4>2, ToldThen
    <3> QED
      BY <1>2, <2>1, <3>1, <3>3, <3>4 DEF LineInv, PageRight, Lines
  <2>2. CASE pageAt[p] = "greeted"
    <3>1. onItsWay'[p] = <<>> /\ onItsWay[p] = <<>> /\ feed'[p] = feed[p] /\ head'[p] = head[p]
          /\ pageAt'[p] = pageAt[p]
      BY <2>2 DEF Line!Fanout, LineInv, PageTypes, PageRight
    <3>2. ASSUME ~missed'[p] PROVE Line!Heading(p)' = state
      <4>1. ~missed[p] /\ (m = "mail" \/ feed[p] = <<m>>)
        BY <1>0, <2>2, <3>2 DEF Line!Fanout
      <4>2. Line!After(head[p], feed[p]) = state
        <5>1. CASE m # "mail"
          BY <1>2, <4>1, <5>1, AfterOne
        <5>2. CASE m = "mail"
          <6>1. Line!Heading(p) = state
            BY <2>2, <4>1 DEF LineInv, PageRight
          <6> QED
            BY <1>6, <3>1, <5>2, <6>1, AfterNothing DEF Line!Heading
        <5> QED
          BY <5>1, <5>2
      <4>3. Line!After(Line!After(Line!After(head[p], feed[p]), <<>>), Line!Saying') = state
        BY <1>6, <4>2, AfterNothing
      <4> QED
        BY <3>1, <4>3 DEF Line!Heading, Line!After
    <3> QED
      BY <1>2, <2>2, <3>1, <3>2 DEF PageRight
  <2>3. CASE pageAt[p] \notin {"greeted", "in"}
    BY <2>3 DEF Line!Fanout, LineInv, PageRight, PageTypes
  <2> QED
    BY <2>1, <2>2, <2>3
<1> QED
  BY <1>3, <1>4, <1>7 DEF LineInv

\* A step of one page leaves the others, and the thread, as they were.
LEMMA OnePage ==
    ASSUME LineInv, NEW p \in Pages, PageTypes', PageRight(p)', UNCHANGED <<state, saying>>,
           \A q \in Pages \ {p} :
               /\ pageAt[q]' = pageAt[q] /\ onItsWay[q]' = onItsWay[q] /\ feed[q]' = feed[q]
               /\ head[q]' = head[q] /\ missed[q]' = missed[q]
    PROVE  LineInv'
<1>1. Current'
  BY DEF LineInv, Current
<1>2. ASSUME NEW q \in Pages \ {p} PROVE PageRight(q)'
  BY <1>2, PageKept DEF LineInv
<1> QED
  BY <1>1, <1>2 DEF LineInv

LEMMA Visited ==
    ASSUME LineInv, NEW p \in Pages, Line!Visit(p)
    PROVE  LineInv'
<1>1. PageTypes' /\ pageAt'[p] = "asked" /\ onItsWay'[p] = <<>> /\ UNCHANGED <<state, saying>>
  BY DEF LineInv, PageTypes, Line!Visit, Line!State
<1>2. PageRight(p)'
  BY <1>1 DEF PageRight
<1> QED
  BY <1>1, <1>2, OnePage DEF Line!Visit, LineInv, PageTypes

LEMMA LeftPage ==
    ASSUME LineInv, NEW p \in Pages, Line!Leave(p)
    PROVE  LineInv'
<1>1. PageTypes' /\ pageAt'[p] = "away" /\ UNCHANGED <<state, saying>>
  <2>1. <<>> \in Seq(Line!Update)
    OBVIOUS
  <2> QED
    BY <2>1 DEF LineInv, PageTypes, Line!Leave, Line!thread
<1>2. PageRight(p)'
  BY <1>1 DEF PageRight
<1> QED
  BY <1>1, <1>2, OnePage DEF Line!Leave, LineInv, PageTypes

LEMMA Greeted ==
    ASSUME Line!RelayConstants, LineInv, NEW p \in Pages, Line!Greet(p)
    PROVE  LineInv'
<1>1. PageTypes'
  <2>1. <<state>> \in Seq(Line!Update)
    BY DEF LineInv, PageTypes, Line!Update
  <2> QED
    BY <2>1 DEF LineInv, PageTypes, Line!Greet, Line!thread, Line!Greeting
<1>2. /\ pageAt'[p] = "greeted" /\ onItsWay'[p] = <<>> /\ UNCHANGED <<state, saying>>
      /\ feed'[p] = <<state>> /\ head'[p] = head[p]
  BY DEF LineInv, PageTypes, PageRight, Line!Greet, Line!thread, Line!Greeting
<1>3. Line!Heading(p)' = state
  <2>1. Line!After(Line!After(head[p], <<state>>), <<>>) = state
    <3>1. state # "mail"
      BY DEF LineInv, PageTypes, Line!State
    <3> QED
      BY <3>1, AfterOne, AfterNothing
  <2>2. Line!After(state, Line!Saying) = state
    <3>1. CASE saying = None
      BY <3>1, AfterNothing DEF Line!Saying
    <3>2. CASE saying # None
      BY <3>2, AfterOne DEF Line!Saying, LineInv, PageTypes, Current, Line!Update
    <3> QED
      BY <3>1, <3>2
  <2>3. Line!Saying' = Line!Saying
    BY <1>2 DEF Line!Saying
  <2>4. PICK f : f = <<state>>
    OBVIOUS
  <2>5. Line!After(Line!After(Line!After(head[p], f), <<>>), Line!Saying) = state
    BY <2>1, <2>2, <2>4
  <2>6. feed'[p] = f
    BY <1>2, <2>4
  <2> QED
    BY <1>2, <2>3, <2>5, <2>6, HeadingThen
<1>4. PageRight(p)'
  BY <1>2, <1>3 DEF PageRight
<1> QED
  BY <1>1, <1>2, <1>4, OnePage DEF Line!Greet, LineInv, PageTypes

LEMMA Added ==
    ASSUME LineInv, NEW p \in Pages, Line!Add(p)
    PROVE  LineInv'
<1>1. PageTypes'
  BY DEF LineInv, PageTypes, Line!Add, Line!thread
<1>2. /\ pageAt[p] = "greeted" /\ pageAt'[p] = "in" /\ onItsWay[p] = <<>> /\ UNCHANGED <<state, saying>>
      /\ onItsWay' = onItsWay /\ feed' = feed /\ head' = head /\ missed' = missed
  BY DEF LineInv, PageTypes, PageRight, Line!Add, Line!thread
<1>3. Line!Saying' = Line!Saying
  BY <1>2 DEF Line!Saying
<1>4. Line!Heading(p)' = Line!Heading(p)
  BY <1>2, <1>3 DEF Line!Heading, Line!After
<1>5. Lines(onItsWay[p])' = {}
  BY <1>2 DEF Lines
<1>6. PageRight(p)'
  BY <1>2, <1>4, <1>5 DEF PageRight, LineInv
<1> QED
  BY <1>1, <1>2, <1>6, OnePage DEF Line!Add, LineInv, PageTypes

LEMMA Rendered ==
    ASSUME LineInv, NEW p \in Pages, Line!Render(p)
    PROVE  LineInv'
<1>1. PICK f : f = feed[p]
  OBVIOUS
<1>2. PICK rest : rest = Tail(f)
  OBVIOUS
<1>3. PICK h : h = IF Head(f) = "mail" THEN head[p] ELSE Head(f)
  OBVIOUS
<1>4. f \in Seq(Line!Update) /\ f # <<>> /\ rest \in Seq(Line!Update) /\ Head(f) \in Line!Update
  BY <1>1, <1>2 DEF Line!Render, LineInv, PageTypes
<1>5. h \in Line!State
  BY <1>3, <1>4 DEF Line!Update, LineInv, PageTypes
<1>6. /\ feed' = [feed EXCEPT ![p] = rest] /\ head' = [head EXCEPT ![p] = h]
      /\ pageAt' = pageAt /\ onItsWay' = onItsWay /\ missed' = missed /\ UNCHANGED <<state, saying>>
  BY <1>1, <1>2, <1>3 DEF Line!Render, LineInv, PageTypes, Line!thread
<1>7. PageTypes'
  BY <1>4, <1>5, <1>6 DEF LineInv, PageTypes
<1>8. Line!Saying' = Line!Saying
  BY <1>6 DEF Line!Saying
<1>9. Line!After(head[p], f) = Line!After(h, rest)
  BY <1>2, <1>3, <1>4, AfterHead
<1>10. Line!Heading(p)' = Line!Heading(p)
  <2>1. Line!After(Line!After(Line!After(h, rest), onItsWay[p]), Line!Saying) = Line!Heading(p)
    BY <1>1, <1>9 DEF Line!Heading
  <2>2. head'[p] = h /\ feed'[p] = rest /\ onItsWay'[p] = onItsWay[p]
    BY <1>6 DEF LineInv, PageTypes
  <2> QED
    BY <1>8, <2>1, <2>2, HeadingThen
<1>11. ASSUME NEW y
       PROVE Line!After(Line!After(y, onItsWay[p]), Line!Saying)' = Line!After(Line!After(y, onItsWay[p]), Line!Saying)
  BY <1>6, <1>8, ToldThen
<1>12. PageRight(p)'
  BY <1>6, <1>10, <1>11 DEF PageRight, LineInv, Lines
<1> QED
  BY <1>6, <1>7, <1>12, OnePage DEF LineInv, PageTypes

LEMMA Offered ==
    ASSUME Line!RelayConstants, LineInv, NEW p \in Pages, Line!Offer(p)
    PROVE  LineInv'
<1>1. PICK q, rest, m : q = onItsWay[p] /\ rest = Tail(q) /\ m = Head(q)
  OBVIOUS
<1>2. q \in Seq(Line!Update) /\ q # <<>> /\ rest \in Seq(Line!Update) /\ m \in Line!Update
  BY <1>1 DEF Line!Offer, LineInv, PageTypes
<1>3. /\ onItsWay' = [onItsWay EXCEPT ![p] = rest] /\ head' = head /\ pageAt' = pageAt
      /\ UNCHANGED <<state, saying>>
  BY <1>1 DEF Line!Offer, LineInv, PageTypes, Line!thread
<1> DEFINE room == Len(feed[p]) < Depth
<1>5. PICK more : more = Append(feed[p], m)
  OBVIOUS
<1>6. /\ feed' = IF pageAt[p] = "in" /\ room THEN [feed EXCEPT ![p] = more] ELSE feed
      /\ missed' = IF m = "mail" THEN missed ELSE [missed EXCEPT ![p] = ~room]
  BY <1>1, <1>5 DEF Line!Offer
<1> HIDE DEF room
<1>7. feed[p] \in Seq(Line!Update) /\ more \in Seq(Line!Update) /\ head[p] \in Line!State
  BY <1>2, <1>5 DEF LineInv, PageTypes
<1>8. PageTypes'
  <2>1. (~room) \in BOOLEAN
    OBVIOUS
  <2> QED
    BY <1>2, <1>3, <1>6, <1>7, <2>1 DEF LineInv, PageTypes
<1>9. Line!Saying' = Line!Saying /\ onItsWay'[p] = rest /\ pageAt'[p] = pageAt[p] /\ head'[p] = head[p]
  BY <1>3 DEF Line!Saying, LineInv, PageTypes
<1>10. \A y : Line!After(y, q) = Line!After(IF m = "mail" THEN y ELSE m, rest)
  BY <1>1, <1>2, AfterHead
<1>11. \A y : Line!After(y, more) = IF m = "mail" THEN Line!After(y, feed[p]) ELSE m
  BY <1>2, <1>5, <1>7, AfterAppend
<1>12. pageAt[p] # "greeted" /\ pageAt[p] # "asked"
  BY <1>1, <1>2 DEF LineInv, PageRight
<1>13. ASSUME pageAt[p] = "in", ~missed'[p] PROVE Line!Heading(p)' = state
  <2>1. CASE m = "mail"
    <3>1. Line!Heading(p) = state
      BY <1>6, <1>13, <2>1 DEF LineInv, PageRight
    <3>2. PICK f : f = feed'[p]
      OBVIOUS
    <3>3. Line!After(head[p], f) = Line!After(head[p], feed[p])
      BY <1>6, <1>11, <2>1, <3>2 DEF LineInv, PageTypes
    <3>4. Line!After(Line!After(Line!After(head[p], f), rest), Line!Saying) = state
      BY <1>1, <1>10, <2>1, <3>1, <3>3 DEF Line!Heading
    <3> QED
      BY <1>9, <3>2, <3>4, HeadingThen
  <2>2. CASE m # "mail"
    <3>1. room
      BY <1>6, <1>13, <2>2 DEF LineInv, PageTypes
    <3>2. feed'[p] = more
      BY <1>6, <1>13, <3>1 DEF LineInv, PageTypes
    <3>3. Lines(q) # {}
      <4>1. 1 \in Lines(q)
        BY <1>1, <1>2, <2>2 DEF Lines
      <4> QED
        BY <4>1
    <3>4. Line!After(Line!After(head[p], q), Line!Saying) = state
      BY <1>1, <1>7, <1>13, <3>3 DEF LineInv, PageRight
    <3>5. Line!After(Line!After(Line!After(head[p], more), rest), Line!Saying) = state
      BY <1>10, <1>11, <2>2, <3>4
    <3> QED
      BY <1>9, <3>2, <3>5, HeadingThen
  <2> QED
    BY <2>1, <2>2
<1>14. ASSUME pageAt[p] = "in", Lines(rest) # {}, NEW y \in Line!State
       PROVE  Line!After(Line!After(y, onItsWay[p]), Line!Saying)' = state
  <2>1. Lines(q) # {}
    <3>1. PICK i : Last(rest, i)
      BY <1>2, <1>14, LastLine
    <3>2. i + 1 \in Lines(q)
      BY <1>1, <1>2, <3>1 DEF Last, Lines
    <3> QED
      BY <3>2
  <2>2. Line!After(Line!After(y, q), Line!Saying) = state
    BY <1>1, <1>14, <2>1 DEF LineInv, PageRight
  <2>3. Line!After(y, q) = Line!After(y, rest)
    BY <1>2, <1>10, <1>14, AfterALine
  <2> QED
    BY <1>9, <2>2, <2>3, ToldThen
<1>15. PageRight(p)'
  BY <1>3, <1>9, <1>12, <1>13, <1>14 DEF PageRight, Lines
<1> QED
  BY <1>3, <1>6, <1>8, <1>15, OnePage DEF LineInv, PageTypes

LEMMA RelayNext ==
    ASSUME Line!RelayConstants, LineInv, [Line!Next]_(Line!vars)
    PROVE  LineInv'
<1>1. CASE UNCHANGED Line!vars
  BY <1>1, StateKept DEF Line!vars, Line!thread
<1>2. CASE Line!HubChanges \/ Line!Close \/ Line!Unreachable \/ Line!Drop \/ Line!Wait
  <2>1. UNCHANGED <<state, saying, Line!watchers>>
    BY <1>2 DEF Line!HubChanges, Line!Close, Line!Unreachable, Line!Drop, Line!Wait,
       Line!thread
  <2> QED
    BY <2>1, StateKept
<1>3. CASE Line!Connect \/ Line!RefusedForGood \/ Line!Judge
  BY <1>3, StateSet DEF Line!Connect, Line!RefusedForGood, Line!Judge, Line!Thread,
     Line!State
<1>4. CASE Line!Fanout
  BY <1>4, FannedOut
<1>5. CASE Line!ReadMail
  BY <1>5, MailRead
<1>6. ASSUME NEW p \in Pages,
             Line!Visit(p) \/ Line!Greet(p) \/ Line!Add(p) \/ Line!Leave(p) \/ Line!Offer(p) \/ Line!Render(p)
      PROVE  LineInv'
  BY <1>6, Visited, Greeted, Added, LeftPage, Offered, Rendered
<1> QED
  BY <1>1, <1>2, <1>3, <1>4, <1>5, <1>6 DEF Line!Next

LEMMA RelayHolds == LineInv => Line!WatchersAgree
BY DEF LineInv, PageRight, Line!WatchersAgree

-----------------------------------------------------------------------------
(* What holds in every behaviour of the parts *)

\* However an engine's checks overlap, are cut short or fail, what its watermark
\* holds and it has not read, it was told of, or is about to be (wake.run,
\* wake_response): for any engines, hooks at once and mail.
THEOREM NoWakeIsLost == DeskSpec => []NoWakeLost
<1> DEFINE I == part = "wakes" => WakeInv
<1>1. DeskInit => I
  BY DeskConstants, WakerInit DEF DeskInit, MachineInit
<1>2. I /\ [DeskNext]_deskVars => I'
  BY DeskConstants, WakesStep, WakerNext
<1>3. I => NoWakeLost
  BY DeskConstants, WakerHolds DEF NoWakeLost
<1> QED
  BY <1>1, <1>2, <1>3, PTL DEF DeskSpec

\* A task interrupts no more often than its cap within a window, across
\* reconnects (interrupt.Gatekeeper, mcp_client._hold_the_stream): for any cap,
\* window and senders.
THEOREM TheRateIsHeld == DeskSpec => []RateHeld
<1> DEFINE I == part = "interrupts" => GateInv
<1>1. DeskInit => I
  BY DeskConstants, GateInit DEF DeskInit, MachineInit
<1>2. I /\ [DeskNext]_deskVars => I'
  BY DeskConstants, GateStep, GateNext
<1>3. I => RateHeld
  BY DeskConstants, GateHolds DEF RateHeld
<1> QED
  BY <1>1, <1>2, <1>3, PTL DEF DeskSpec

\* However often an agent repeats a call that failed, the hub stores its reply
\* once, unless it was looked for while an earlier attempt was still on its way
\* (_reply_once, House.reply).
THEOREM RepliesAreStoredOnce == DeskSpec => []RepliedOnce
<1> DEFINE I == part = "replies" => ReplyInv
<1>1. DeskInit => I
  BY DeskConstants, RepliesInit DEF DeskInit, MachineInit
<1>2. I /\ [DeskNext]_deskVars => I'
  BY DeskConstants, AnswersStep, RepliesNext
<1>3. I => RepliedOnce
  BY DeskConstants, RepliesHold DEF RepliedOnce
<1> QED
  BY <1>1, <1>2, <1>3, PTL DEF DeskSpec

\* What reply_messages reports as delivered is on the thread, and so is what it
\* reports as a duplicate, but for an item that repeats one of its batch, of which
\* it knows nothing; a message is marked as handled only when a reply to it is stored.
THEOREM ReportsAreTrue == DeskSpec => [](part = "replies" => Answers!LedgerIsTrue)
<1> DEFINE I == part = "replies" => ReplyInv
<1>1. DeskInit => I
  BY DeskConstants, RepliesInit DEF DeskInit, MachineInit
<1>2. I /\ [DeskNext]_deskVars => I'
  BY DeskConstants, AnswersStep, RepliesNext
<1>3. I => (part = "replies" => Answers!LedgerIsTrue)
  BY DeskConstants, RepliesHold
<1> QED
  BY <1>1, <1>2, <1>3, PTL DEF DeskSpec

\* Waiting mail that a session's bookmark has passed was shown to it, but for
\* what arrived late or came from another session's answer, whatever the page's
\* size (api.inbox, the MCP server's bookmark).
THEOREM ThePassedWasShown == DeskSpec => []PassedWasShown
<1> DEFINE I == part = "inbox" => AskInv
<1>1. DeskInit => I
  BY DeskConstants, InboxInit DEF DeskInit, MachineInit
<1>2. I /\ [DeskNext]_deskVars => I'
  BY DeskConstants, MailStep, InboxNext
<1>3. I => PassedWasShown
  BY DeskConstants, InboxHolds DEF PassedWasShown
<1> QED
  BY <1>1, <1>2, <1>3, PTL DEF DeskSpec

\* A subscribed page's head row, and what is on its way to it, end in the state
\* the relay is in, unless the last change fell between the page's greeting and its
\* subscription or found its queue full, which the page is then not told of
\* (relay.Relay.subscribe, _post): for any pages and queue depth.
THEOREM TheWatchersAgree == DeskSpec => []WatchersAgree
<1> DEFINE I == part = "line" => LineInv
<1>1. DeskInit => I
  BY DeskConstants, RelayInit DEF DeskInit, MachineInit
<1>2. I /\ [DeskNext]_deskVars => I'
  BY DeskConstants, LineStep, RelayNext
<1>3. I => WatchersAgree
  BY DeskConstants, RelayHolds DEF WatchersAgree
<1> QED
  BY <1>1, <1>2, <1>3, PTL DEF DeskSpec
=============================================================================
