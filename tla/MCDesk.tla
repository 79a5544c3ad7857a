------------------------------- MODULE MCDesk ------------------------------
(***************************************************************************)
(* Small instances of what runs beside an agent or a human, for TLC.       *)
(***************************************************************************)
EXTENDS Desk, MCProjectConfig

CONSTANTS
    ann, ben, console, anyone,  \* two humans, the console, a shared token
    x,                          \* somebody else's hook
    friend, stranger,           \* senders
    m1, m2,                     \* messages
    yes, no                     \* bodies of replies

\* A harness whose file is shared, and one whose file is ours.
MCFiles == <<"claude", "omp">>

\* A hub that enforces, and a console whose token is for pages only.
MCDeployments == {[mode |-> "enforce", token |-> "ui"]}

\* Two processes of one engine, whose waits are one sleep long.
MCHooks == {a} \X {1, 2}

To(message, body) == [message |-> message, body |-> body]
MCBatches == {<<To(m1, yes)>>, <<To(m1, no)>>, <<To(m1, yes), To(m1, no), To(m2, yes)>>}
=============================================================================
