-------------------------------- MODULE Hub --------------------------------
(***************************************************************************)
(* The hub's smaller parts, side by side: a behaviour is one of the part   *)
(* it begins with, and the variables of the others stay as they are.  The  *)
(* database connection and the views of a store are parts that the module  *)
(* extends; their own variables begin as they do in their Init.  What      *)
(* holds of a part holds of the behaviours that are its own, so one run,   *)
(* and one invariant, cover them all.                                      *)
(***************************************************************************)
EXTENDS SqliteConnection, Reading

CONSTANTS
    Off,                     \* what a variable of another part holds
    Agents, People,          \* those of this hub
    Subscribers, Owner, Messages, MaxListeners, QueueDepth,     \* event streams
    HubNames, LocalName, Titles, Empty, Operators, Needs, Environments,
    Origins, Exchanges,                                         \* peers
    Shared, SharedToken, BoundToken, Horizon, Restarts,         \* device tokens
    Remotes, MaxRecipients, Attempts, Policies, Broken,         \* a send
    Outsiders,
    Conversations, Minutes, Settle, Keeps, Failures,            \* the purge loop
    Records, Recipients, Timeout, Lease, ClockBound,            \* mail to another hub
    Retried, Twins

VARIABLES
    part,
    conn, queue, frames, owed, dropped, announced,
    env, stored, page, put, key, minted, need,
    federation, peers, blocks, adding, exchange,
    row, uses, used, sheet, admitted, clock, request, restarts, let, lost,
    deliverer, op, to, large, at, resolved, receipts, kept, outcome, heard, log,
    notified, answered, refusals, reached, made,
    profile, mode, enforcing, ask, answer, shown,
    hub, up, loop, left, doomed, status, idle, removed, board, faults,
    now, trusted, phase, tries, due, word, post, claim, done, arrived, lapsed

Streams == INSTANCE Listeners WITH Actors <- Agents, Clients <- Subscribers, Hub <- None

Settings == INSTANCE HubSettings WITH
    Names <- HubNames, Local <- LocalName, Clients <- Operators

Peers == INSTANCE Trust

\* The tokens of a deployment: what is issued, what requests come with, and how
\* many are at work at once.
Device(d) == INSTANCE Tokens WITH
    page <- sheet, AuthMode <- "enforce",
    Issue <- d.issue, Presented <- d.presented, Requests <- d.requests

Pipeline == INSTANCE House WITH
    stored <- kept, announced <- notified, told <- answered, Locals <- Agents

Shows == INSTANCE Outward WITH Names <- Agents, Clients <- Outsiders

Keeper == INSTANCE Retention WITH page <- board

\* Mail from this hub to another: how often a message names its recipients, and
\* the waits between attempts.
Wire(w) == INSTANCE Delivery WITH Mentions <- w.mentions, Backoff <- w.backoff

\* What the parts assume of their constants; that of the connection and of the
\* views is assumed where they are declared.
ASSUME HubConstants ==
    /\ Streams!ListenersConstants /\ Settings!HubSettingsConstants
    /\ Device(SharedToken)!TokensConstants /\ Device(BoundToken)!TokensConstants
    /\ Pipeline!HouseConstants /\ Keeper!RetentionConstants
    /\ Wire(Retried)!DeliveryConstants /\ Wire(Twins)!DeliveryConstants

-----------------------------------------------------------------------------
streams == <<conn, queue, frames, owed, dropped, announced>>
settings == <<env, stored, page, put, key, minted, need>>
trust == <<federation, peers, blocks, adding, exchange>>
devices == <<row, uses, used, sheet, admitted, clock, request, restarts, let,
             lost>>
pipeline == <<deliverer, op, to, large, at, resolved, receipts, kept,
              outcome, heard, log, notified, answered, refusals, reached,
              made>>
shows == <<profile, mode, enforcing, ask, answer, shown>>
keeper == <<hub, up, loop, left, doomed, status, idle, removed, board, faults>>
wire == <<now, trusted, phase, tries, due, word, post, claim, done, arrived, lapsed>>

NoStreams ==
    /\ conn = Off /\ queue = Off /\ frames = Off /\ owed = Off
    /\ dropped = Off /\ announced = Off

NoSettings ==
    /\ env = Off /\ stored = Off /\ page = Off /\ put = Off /\ key = Off
    /\ minted = Off /\ need = Off

NoPeers ==
    /\ federation = Off /\ peers = Off /\ blocks = Off /\ adding = Off
    /\ exchange = Off

NoDevices ==
    /\ row = Off /\ uses = Off /\ used = Off /\ sheet = Off
    /\ admitted = Off /\ clock = Off /\ request = Off /\ restarts = Off
    /\ let = Off /\ lost = Off

NoPipeline ==
    /\ deliverer = Off /\ op = Off /\ to = Off /\ large = Off /\ at = Off
    /\ resolved = Off /\ receipts = Off /\ kept = Off /\ outcome = Off
    /\ heard = Off /\ log = Off /\ notified = Off /\ answered = Off
    /\ refusals = Off /\ reached = Off /\ made = Off

NoShows ==
    /\ profile = Off /\ mode = Off /\ enforcing = Off /\ ask = Off
    /\ answer = Off /\ shown = Off

NoKeeper ==
    /\ hub = Off /\ up = Off /\ loop = Off /\ left = Off /\ doomed = Off
    /\ status = Off /\ idle = Off /\ removed = Off /\ board = Off
    /\ faults = Off

NoWire ==
    /\ now = Off /\ trusted = Off /\ phase = Off /\ tries = Off /\ due = Off
    /\ word = Off /\ post = Off /\ claim = Off /\ done = Off
    /\ arrived = Off /\ lapsed = Off

HubInit ==
    /\ Init /\ ReadingInit
    /\ \/ part = "connection" /\ NoStreams /\ NoSettings /\ NoPeers
          /\ NoDevices /\ NoPipeline /\ NoShows /\ NoKeeper /\ NoWire
       \/ part = "streams" /\ Streams!Init /\ NoSettings /\ NoPeers
          /\ NoDevices /\ NoPipeline /\ NoShows /\ NoKeeper /\ NoWire
       \/ part = "settings" /\ Settings!Init /\ NoStreams /\ NoPeers
          /\ NoDevices /\ NoPipeline /\ NoShows /\ NoKeeper /\ NoWire
       \/ part = "trust" /\ Peers!Init /\ NoStreams /\ NoSettings
          /\ NoDevices /\ NoPipeline /\ NoShows /\ NoKeeper /\ NoWire
       \/ part = "shared" /\ Device(SharedToken)!Init /\ NoStreams /\ NoSettings
          /\ NoPeers /\ NoPipeline /\ NoShows /\ NoKeeper /\ NoWire
       \/ part = "bound" /\ Device(BoundToken)!Init /\ NoStreams /\ NoSettings
          /\ NoPeers /\ NoPipeline /\ NoShows /\ NoKeeper /\ NoWire
       \/ part = "pipeline" /\ Pipeline!Init /\ NoStreams /\ NoSettings
          /\ NoPeers /\ NoDevices /\ NoShows /\ NoKeeper /\ NoWire
       \/ part = "shows" /\ Shows!Init /\ NoStreams /\ NoSettings
          /\ NoPeers /\ NoDevices /\ NoPipeline /\ NoKeeper /\ NoWire
       \/ part = "keeper" /\ Keeper!Init /\ NoStreams /\ NoSettings
          /\ NoPeers /\ NoDevices /\ NoPipeline /\ NoShows
          /\ NoWire
       \/ part = "views" /\ NoStreams /\ NoSettings
          /\ NoPeers /\ NoDevices /\ NoPipeline /\ NoShows /\ NoKeeper /\ NoWire
       \/ part = "wire" /\ Wire(Retried)!DeliveryInit /\ NoStreams /\ NoSettings
          /\ NoPeers /\ NoDevices /\ NoPipeline /\ NoShows /\ NoKeeper
       \/ part = "twice" /\ Wire(Twins)!DeliveryInit /\ NoStreams /\ NoSettings
          /\ NoPeers /\ NoDevices /\ NoPipeline /\ NoShows /\ NoKeeper

HubNext ==
    \/ /\ part = "connection" /\ Next
       /\ UNCHANGED <<part, streams, settings, trust, devices, pipeline,
                     shows, keeper, readingVars, wire>>
    \/ /\ part = "streams" /\ Streams!Next
       /\ UNCHANGED <<part, vars, settings, trust, devices, pipeline,
                     shows, keeper, readingVars, wire>>
    \/ /\ part = "settings" /\ Settings!Next
       /\ UNCHANGED <<part, vars, streams, trust, devices, pipeline,
                     shows, keeper, readingVars, wire>>
    \/ /\ part = "trust" /\ Peers!Next
       /\ UNCHANGED <<part, vars, streams, settings, devices, pipeline,
                     shows, keeper, readingVars, wire>>
    \/ /\ part = "shared" /\ Device(SharedToken)!Next
       /\ UNCHANGED <<part, vars, streams, settings, trust, pipeline,
                     shows, keeper, readingVars, wire>>
    \/ /\ part = "bound" /\ Device(BoundToken)!Next
       /\ UNCHANGED <<part, vars, streams, settings, trust, pipeline,
                     shows, keeper, readingVars, wire>>
    \/ /\ part = "pipeline" /\ Pipeline!Next
       /\ UNCHANGED <<part, vars, streams, settings, trust, devices,
                     shows, keeper, readingVars, wire>>
    \/ /\ part = "shows" /\ Shows!Next
       /\ UNCHANGED <<part, vars, streams, settings, trust, devices,
                     pipeline, keeper, readingVars, wire>>
    \/ /\ part = "keeper" /\ Keeper!Next
       /\ UNCHANGED <<part, vars, streams, settings, trust, devices,
                     pipeline, shows, readingVars, wire>>
    \/ /\ part = "views" /\ ReadingNext
       /\ UNCHANGED <<part, vars, streams, settings, trust, devices,
                     pipeline, shows, keeper, wire>>
    \/ /\ \/ part = "wire" /\ Wire(Retried)!DeliveryNext
          \/ part = "twice" /\ Wire(Twins)!DeliveryNext
       /\ UNCHANGED <<part, vars, streams, settings, trust, devices,
                     pipeline, shows, keeper, readingVars>>

\* The fairness of the parts, each in its own behaviours.
Fairness ==
    /\ \A c \in Operations : WF_vars(part = "connection" /\ Work(c))
    /\ \A c \in Subscribers : WF_streams(part = "streams" /\ Streams!Close(c))
    /\ WF_keeper(part = "keeper" /\ Keeper!Minute)
    /\ WF_keeper(part = "keeper" /\ Keeper!Wake)
    /\ WF_keeper(part = "keeper" /\ (Keeper!Purge \/ Keeper!PurgeRaises))
    /\ WF_wire(part = "wire" /\ Wire(Retried)!TimePasses)
    /\ \A c \in Wire(Retried)!Copies :
         /\ WF_wire(part = "wire" /\ Wire(Retried)!Proceeds(c))
         /\ WF_wire(part = "wire" /\ Wire(Retried)!Concludes(c))

hubVars == <<part, vars, streams, settings, trust, devices, pipeline, shows, keeper,
             readingVars, wire>>

HubSpec == HubInit /\ [][HubNext]_hubVars /\ Fairness

-----------------------------------------------------------------------------
(* The properties of the parts, each over the behaviours of its part; those *)
(* of the connection and of the views are as their modules state them.      *)

\* A stream is sent what was announced to it, once and in order, but for what
\* found its queue full (notify.Listeners, House._announce).
ToldOnceInOrder == part = "streams" => Streams!ToldOnceInOrder

\* A hub whose streams were all left by their clients does not stay full.
SlotsComeBack ==
    (part = "streams" /\ Streams!Deserted) ~> (part = "streams" /\ ~Streams!Deserted)

\* The signing key stops changing once no first need of it overlaps another.
KeySettles ==
    [][part = "settings" => Settings!KeySettlesStep]_settings

\* What a path asks about another hub it asks at every attempt: on the way out the
\* blocks, the switch and the peers, on the way in the switch and the peers, and
\* not the blocks (FederatedDelivery.deliver, federation_inbox, verified_peer).
DecidedAnew == part = "trust" => Peers!DecidedAnew

\* Every agent a token let in is on the token's list, and on the page that it
\* is revoked by (admit, record_use, list_tokens, revoke_token).
AdmittedIsKnown ==
    /\ part = "shared" => Device(SharedToken)!AdmittedIsKnown
    /\ part = "bound" => Device(BoundToken)!AdmittedIsKnown

\* Every remote recipient of what was reported sent has a receipt (House.send).
EveryRecipientAccounted == part = "pipeline" => Pipeline!EveryRecipientAccounted

\* No route shows an outsider a name that was hidden (visibility.read, api).
HiddenStaysHidden == part = "shows" => Shows!HiddenStaysHidden

\* However attempts overlap, time out, fail and crash, and also when a message
\* names its recipient twice, it is stored there at most once, unless its claim
\* lapsed, and what the sender is told is true (issues #40 and #41): the two hubs
\* implement Courier.
KeepsItsPromise ==
    /\ part = "wire" => Wire(Retried)!Courier!Init
    /\ part = "twice" => Wire(Twins)!Courier!Init
    /\ [][/\ part = "wire" => Wire(Retried)!CourierStep
          /\ part = "twice" => Wire(Twins)!CourierStep]_wire

\* One delivery of an activity is under way at a time, until a claim of it lapses
\* (Mailbox.claim_activity, api.federation_inbox).
OneClaimant ==
    /\ part = "wire" => Wire(Retried)!OneClaimant
    /\ part = "twice" => Wire(Twins)!OneClaimant

\* A sender told `queued' is owed an ending, unless the hub dies with its queue
\* or the peer holds one attempt for ever (retry._gave_up).
QueuedGetsAnEnding ==
    \A c \in Wire(Retried)!Copies :
        <>[](part = "wire" /\ Wire(Retried)!Owed(c))
            => <>[](part = "wire" /\ Wire(Retried)!Held(c))

\* A hub that keeps staying up for its settling time expires what is idle,
\* however often it is restarted (api.purge_forever and its first delay).
RetentionRuns ==
    []<>(part = "keeper" /\ Keeper!SettlesAgain)
        => \A thread \in Conversations :
              ~<>[](part = "keeper" /\ Keeper!ExpiresSome(thread))
=============================================================================
