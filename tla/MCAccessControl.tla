--------------------------- MODULE MCAccessControl ---------------------------
(* The requests of a small instance: bodies cannot be written in a .cfg.   *)
EXTENDS AccessControl, TLC

CONSTANTS u1, u2, u3, u4, g1, g2, c1, c2, p1, p2

Request(kind, who, at, role, columns, lists) ==
    [kind |-> kind, who |-> who, at |-> at, role |-> role, columns |-> columns, lists |-> lists]
Entry(of, to, role) == [of |-> of, to |-> to, role |-> role]
Replace(part, items) == [part |-> part, items |-> items]
Grant(of, to, role) == Replace("grants", <<Entry(of, to, role)>>)

GrantOps ==
    {Request("login", p2, NULL, 0, FALSE, <<>>),
     Request("collection", p1, c2, 0, FALSE,
             <<Replace("grants", <<Entry(c2, u1, 4), Entry(c2, u2, 3), Entry(c2, u2, 2)>>)>>),
     Request("post", p1, c1, 0, FALSE, <<Replace("grants", <<Entry(c1, u2, 4), Entry(c1, u4, 1)>>)>>),
     Request("post", p2, c2, 0, FALSE, <<Grant(c2, u4, 4)>>),
     Request("put", p1, c1, 3, FALSE, <<>>),
     Request("delete", p1, c1, 0, FALSE, <<>>)}
UserOps ==
    {Request("create", p2, u4, 0, TRUE, <<Replace("groups", <<Entry(g1, u4, 0)>>), Grant(c1, u4, 2)>>),
     Request("patch", NULL, u2, 0, FALSE, <<Grant(c1, u2, 4)>>),
     Request("patch", NULL, u2, 0, FALSE, <<Grant(c2, u2, 2)>>),
     Request("patch", NULL, u2, 0, TRUE, <<Replace("groups", <<>>), Grant(c1, u2, 1)>>),
     Request("patch", NULL, u2, 0, TRUE,
             <<Replace("groups", <<Entry(g1, u2, 0), Entry(g2, u2, 0)>>), Grant(c2, u2, 2)>>),
     Request("deleteUser", NULL, u2, 0, FALSE, <<>>)}
GroupOps ==
    {Request("create", NULL, g2, 0, TRUE, <<Replace("members", <<Entry(g2, u2, 0)>>), Grant(c1, g2, 3)>>),
     Request("patch", NULL, g1, 0, FALSE,
             <<Replace("members", <<Entry(g1, u2, 0), Entry(g1, u1, 0)>>)>>),
     Request("patch", NULL, g1, 0, TRUE, <<Replace("members", <<Entry(g1, u1, 0)>>), Grant(c1, g1, 4)>>),
     Request("deleteGroup", NULL, g1, 0, FALSE, <<>>)}
MCOps == GrantOps \cup UserOps \cup GroupOps

\* u1 has signed in as p1; u2 was created in advance for p2.
MCSeededUsers == (u1 :> [sub |-> p1, name |-> p1]) @@ (u2 :> [sub |-> NULL, name |-> p2])
Only == Link(NULL, c1, u1, 4)
MCSeeds ==
    {{Only, Link(NULL, g1, u1, 0), Link(NULL, c1, g1, 4)},
     {Only, Link(NULL, c1, u2, 4), Link(NULL, c2, u1, 4), Link(NULL, g1, u2, 0)},
     {Only, Link(NULL, c2, u1, 4), Link(NULL, g1, u1, 0), Link(NULL, g2, u1, 0)}}
=============================================================================
