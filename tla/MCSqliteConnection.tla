------------------------ MODULE MCSqliteConnection -------------------------
(* Small instances of SqliteConnection for TLC: a send (add_object), a purge *)
(* (remove_objects), a look (get_object) and a login (auth add_session).     *)
EXTENDS SqliteConnection

CONSTANTS mail, auth, send, purge, look, login

OneStore == [c \in Operations |-> mail]
TwoStores == [c \in Operations |-> IF c = login THEN auth ELSE mail]

Statements ==
    [c \in Operations |-> CASE c = purge -> <<"write", "write">>
                            [] c = look -> <<"read">>
                            [] OTHER -> <<"write">>]
=============================================================================
