---------------------------- MODULE MCChatServer ----------------------------
(***************************************************************************)
(* Instances of ChatServer for TLC: who asks for what, and how often.      *)
(***************************************************************************)
EXTENDS ChatServer, TLC

CONSTANTS c1, c2, c3, alice, bob

Ask(t, n, s) == [type |-> t, parses |-> TRUE, user |-> n, status |-> s]
Garbled(t)   == [Ask(t, NoName, "INVALID") EXCEPT !.parses = FALSE]
Simple(t)    == Ask(t, NoName, "INVALID")
Join(n)      == Ask("REGISTER", n, "INVALID")
Dm(n)        == Ask("MESSAGE_DM", n, "INVALID")
Choose(s)    == Ask("CHANGE_STATUS", NoName, s)

\* alice writes to bob and to everybody, while a third client, which wants to be bob too,
\* waits for a descriptor to become free.
MessagingRequests ==
    c1 :> {Join(alice), Dm(bob), Simple("MESSAGE_GENERAL")}
      @@ c2 :> {Join(bob)}
      @@ c3 :> {Join(bob)}
MessagingReads == c1 :> 3 @@ c2 :> 1 @@ c3 :> 1

\* Every request, the malformed ones too, and messages of alice to herself and
\* to somebody nobody knows.
AllRequests ==
    c1 :> ({Join(alice), Garbled("REGISTER"), Simple("UNKNOWN"), Simple("QUIT"), Garbled("QUIT"),
            Simple("TOO_LONG"), Simple("LIST_USERS"), Simple("MESSAGE_GENERAL"),
            Garbled("MESSAGE_GENERAL")}
           \cup {Choose(s) : s \in Status \cup {"INVALID"}}
           \cup {Ask(t, n, "INVALID") :
                   t \in {"MESSAGE_DM", "GET_USER_INFO"}, n \in {alice, NoName}})
AllReads == c1 :> 3

\* The kernel's numbers, the addresses and the two that want to be bob are interchangeable.
Symmetry == Permutations(Fd) \cup Permutations(Addr) \cup Permutations({c2, c3})

=============================================================================
