---------------------------- MODULE MCLinkResolve ----------------------------
(* LinkResolve with a note of a post of a user, and what can be wrong in it; *)
(* and with accounts of one structure, for what is resolved without chains.  *)
EXTENDS LinkResolve

Plain == [stmt |-> "field", strct |-> "user", name |-> "id", type |-> "int",
          opts |-> {"rowid"}, ref |-> NoName, source |-> NoName,
          names |-> NoName, default |-> NoName, action |-> "none"]

MCItem == [role |-> {"admin"}]

UserId == Plain
Kind == [Plain EXCEPT !.name = "kind", !.type = "enum", !.names = "role",
                      !.default = "admin", !.opts = {}]
UserRef == [Plain EXCEPT !.strct = "post", !.name = "userid", !.opts = {"unique"},
                         !.ref = <<"user", "id">>]
User == [Plain EXCEPT !.strct = "post", !.name = "user", !.type = "struct",
                      !.source = "userid", !.opts = {}]
PostRef == [Plain EXCEPT !.strct = "note", !.name = "postid", !.opts = {},
                         !.ref = <<"post", "userid">>]
Post == [Plain EXCEPT !.strct = "note", !.name = "post", !.type = "struct",
                      !.source = "postid", !.opts = {}]

Term(chain, op) == [chain |-> chain, op |-> op]

Search == [stmt |-> "search", strct |-> "note", kind |-> "list", terms |-> <<>>,
           order |-> <<>>, aggr |-> <<>>, group |-> <<>>, distinct |-> <<>>,
           name |-> NoName]

List == [Search EXCEPT !.terms = <<Term(<<"post", "user", "id">>, "eq")>>,
                       !.distinct = <<"post", "user">>]
Grouped == [Search EXCEPT !.kind = "iterate", !.order = <<<<"post", "user", "kind">>>>,
                          !.aggr = <<"post", "user", "id">>,
                          !.group = <<"post", "user", "kind">>]

Others == {UserId, Kind, UserRef, User, PostRef, Post, List}

Swap(f, g) == (Others \ {f}) \cup {g}

Chains ==
  { Others,
    {UserId, UserRef, User,
     [Search EXCEPT !.strct = "user", !.terms = <<Term(<<"id">>, "eq")>>]},
    Others \cup {[Search EXCEPT !.terms = <<Term(<<"postid">>, "gt")>>, !.kind = "search"]},
    Swap(List, [List EXCEPT !.distinct = <<>>]),
    Swap(List, [List EXCEPT !.terms[1].chain = <<"post", "userid", "id">>]),
    Swap(List, [List EXCEPT !.terms[1].chain = <<"post", "user">>]),
    Swap(List, [List EXCEPT !.distinct = <<"post", "userid">>]),
    Swap(List, Grouped),
    Swap(List, [Grouped EXCEPT !.group = <<"post", "userid">>]),
    Swap(List, [Grouped EXCEPT !.order = <<<<"post">>>>]),
    Swap(List, [Grouped EXCEPT !.group = <<"post", "user">>]),
    Swap(UserRef, [UserRef EXCEPT !.opts = {"unique", "null"}]),
    Swap(UserRef, [UserRef EXCEPT !.type = "text"]),
    Swap(UserRef, [UserRef EXCEPT !.ref = NoName]),
    Swap(UserRef, [UserRef EXCEPT !.ref = <<"user", "kind">>]),
    Swap(PostRef, [PostRef EXCEPT !.ref = <<"post", "id">>]),
    Swap(Post, [Post EXCEPT !.source = "user"]),
    Swap(Kind, [Kind EXCEPT !.names = "other"]),
    Swap(Kind, [Kind EXCEPT !.default = "guest"]),
    Swap(Kind, [Kind EXCEPT !.name = "id2", !.type = "text", !.names = NoName,
                            !.default = NoName]) }

Text == [Plain EXCEPT !.name = "text", !.type = "text", !.opts = {}]
Pass == [Text EXCEPT !.name = "pass", !.type = "password"]
Bits == [Text EXCEPT !.name = "bits", !.type = "bits", !.names = "flags"]

Update == [stmt |-> "update", strct |-> "user", delete |-> FALSE, mods |-> <<>>,
           where |-> <<[name |-> "id", op |-> "eq"]>>]
Modify(name, mod) == [Update EXCEPT !.mods = <<[name |-> name, mod |-> mod]>>]
Delete(name, op) == [Update EXCEPT !.delete = TRUE, !.where = <<[name |-> name, op |-> op]>>]
Unique(fields) == [stmt |-> "unique", strct |-> "user", fields |-> fields]
Find(name, op) == [Search EXCEPT !.strct = "user", !.kind = "search",
                                 !.terms = <<Term(<<name>>, op)>>]

\* One more statement on the fields of an account.
Account == {Plain, Text, Pass, Bits}

One ==
  UNION { {Modify(n, m) : n \in {"id", "text", "pass", "bits", "kind"}, m \in Mod},
          {Delete(n, op) : n \in {"text", "pass", "kind"}, op \in Op},
          {Unique(f) : f \in {<<"id">>, <<"id", "text">>, <<"text", "text">>, <<"id", "kind">>}},
          {Find(n, op) : n \in {"id", "text", "pass"}, op \in Op},
          {[Find("pass", "eq") EXCEPT !.kind = "count"],
           [Search EXCEPT !.strct = "user", !.group = <<"id">>],
           [Search EXCEPT !.strct = "user", !.group = <<"id">>, !.aggr = <<"pass">>],
           [Search EXCEPT !.strct = "user", !.group = <<"id">>, !.aggr = <<"id">>],
           Kind, [Text EXCEPT !.type = "int"], [Plain EXCEPT !.name = "id2"],
           [Text EXCEPT !.name = "id2", !.opts = {"rowid"}],
           [Text EXCEPT !.name = "id2", !.opts = {"unique", "null"}],
           [Plain EXCEPT !.name = "id2", !.opts = {}, !.ref = <<"user", "id">>,
                         !.action = "default"],
           [Plain EXCEPT !.name = "id2", !.opts = {"null"}, !.ref = <<"user", "id">>,
                         !.action = "nullify"] } }

Two ==
  { {Update, Delete("id", "eq")},
    {Find("id", "eq"), [Find("id", "gt") EXCEPT !.kind = "list"]},
    {[Find("id", "eq") EXCEPT !.name = "x"], [Find("id", "gt") EXCEPT !.name = "x"]},
    {[Find("id", "eq") EXCEPT !.name = "x"], [Find("id", "gt") EXCEPT !.name = "y"]} }

Accounts ==
  {Account \cup {st} : st \in One} \cup {Account \cup pair : pair \in Two}
    \cup { {Update}, {Plain, [Bits EXCEPT !.names = "other"]},
           {Plain, User, [UserRef EXCEPT !.strct = "note"]} }

MCConfigs == Chains \cup Accounts
==============================================================================
