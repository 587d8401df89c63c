-------------------------------- MODULE Dsn --------------------------------
(***************************************************************************)
(* The DSN of mdsn (src/mdsn/src/lib.rs) and the TaosBuilder made from it  *)
(* (src/taos-ws/src/lib.rs).  A DSN text is a sequence of tokens: the      *)
(* separators of the grammar and words (driver, user, host, key, ...).     *)
(*                                                                         *)
(*  - Parse is the grammar of spec section 4.1 (dsn.pest is not in the     *)
(*    repository): it turns a token sequence into the pest pairs that      *)
(*    Dsn::from_str walks.                                                 *)
(*  - FromPairs is that walk; DisplayDsn is Display for Dsn.               *)
(*  - from_dsn, to_query_url, to_stmt_url, to_tmq_url: TaosBuilder.       *)
(*                                                                         *)
(* Urlencoding of a socket path and the parse of a port are the functions  *)
(* Encode and PortNum, bijections on the few texts of a model.            *)
(***************************************************************************)
EXTENDS Naturals, Sequences, SequencesExt

CONSTANTS
  None,        \* model value: Option::None
  Drivers, Protocols, Users, Passwords, Hosts, Databases, Frags, Vals,
  KeyOrder,    \* the parameter keys, in the byte order of a BTreeMap
  PortNum,     \* port text -> u16 (str::parse)
  Encode,      \* socket path -> its urlencoding::encode text
  MaxAddrs, MaxParams,
  GenFrags, GenPortTexts, GenPaths, GenKeys  \* the texts the generator combines

ASSUME /\ GenFrags \subseteq Frags /\ GenPortTexts \subseteq DOMAIN PortNum
       /\ GenPaths \subseteq DOMAIN Encode
       /\ GenKeys \subseteq {KeyOrder[i] : i \in 1..Len(KeyOrder)}

Keys == {KeyOrder[i] : i \in 1..Len(KeyOrder)}
Paths == DOMAIN Encode
Seps == {"+", "://", ":", "@", ",", "/", "?", "&", "=", "(", ")"}
IsWord(x) == x \notin Seps

PortText(n) == CHOOSE t \in DOMAIN PortNum : PortNum[t] = n
decode(e) == CHOOSE p \in DOMAIN Encode : Encode[p] = e

(* A pest pair: its rule, its text and its inner pairs.                    *)
Pair(rule, s, inner) == [rule |-> rule, s |-> s, inner |-> inner]
Leaf(rule, s) == Pair(rule, s, <<>>)

RECURSIVE SplitOn(_, _)
SplitOn(s, sep) ==
  LET i == SelectInSeq(s, LAMBDA x : x = sep) IN
  IF i = 0 THEN <<s>>
  ELSE <<SubSeq(s, 1, i - 1)>> \o SplitOn(SubSeq(s, i + 1, Len(s)), sep)

RECURSIVE Join(_, _)
Join(parts, sep) ==
  IF parts = <<>> THEN <<>>
  ELSE IF Len(parts) = 1 THEN Head(parts)
  ELSE Head(parts) \o <<sep>> \o Join(Tail(parts), sep)

-----------------------------------------------------------------------------
(***************************************************************************)
(* The grammar (spec 4.1).  Each operator returns [ok, pairs].             *)
(***************************************************************************)
Fail == [ok |-> FALSE, pairs |-> <<>>]
Ok(pairs) == [ok |-> TRUE, pairs |-> pairs]

(* address := host (":" port)? | ":" port | "%"-encoded path               *)
ParseAddress(a) ==
  CASE a = <<>> -> Fail
    [] Len(a) = 1 /\ a[1] \in Range(Encode) -> Ok(<<Leaf("path", a[1])>>)
    [] Len(a) = 1 /\ IsWord(a[1]) /\ a[1] \notin Frags \cup Range(Encode) ->
         Ok(<<Leaf("host", a[1])>>)
    [] Len(a) = 2 /\ a[1] = ":" /\ a[2] \in DOMAIN PortNum -> Ok(<<Leaf("port", a[2])>>)
    [] Len(a) = 3 /\ IsWord(a[1]) /\ a[1] \notin Frags \cup Range(Encode)
                  /\ a[2] = ":" /\ a[3] \in DOMAIN PortNum ->
         Ok(<<Leaf("host", a[1]), Leaf("port", a[3])>>)
    [] OTHER -> Fail

(* addresses := address ("," address)*, given each address's parse.      *)
AddressesOf(each) ==
  IF \A i \in 1..Len(each) : each[i].ok
  THEN Ok(<<Pair("addresses", "",
                 [i \in 1..Len(each) |-> Pair("address", "", each[i].pairs)])>>)
  ELSE Fail
ParseAddresses(s) ==
  AddressesOf(LET parts == SplitOn(s, ",")
              IN [i \in 1..Len(parts) |-> ParseAddress(parts[i])])

(* endpoint := protocol "(" addresses ")" | addresses | fragment; a        *)
(* fragment only where no address list parses.                             *)
IsInline(e) == Len(e) >= 4 /\ IsWord(e[1]) /\ e[2] = "(" /\ e[Len(e)] = ")"
EndpointOf(e, as) ==
  IF e = <<>> THEN Ok(<<>>)
  ELSE IF Len(e) = 1 /\ e[1] \in Frags THEN Ok(<<Leaf("fragment", e[1])>>)
  ELSE IF ~as.ok THEN Fail
  ELSE IF IsInline(e)
  THEN Ok(<<Pair("protocol_with_addresses", "", <<Leaf("protocol", e[1])>> \o as.pairs)>>)
  ELSE Ok(<<Pair("protocol_with_addresses", "", as.pairs)>>)
ParseEndpoint(e) ==
  EndpointOf(e, ParseAddresses(IF IsInline(e) THEN SubSeq(e, 3, Len(e) - 1) ELSE e))

(* userinfo := (username (":" password)?)? "@", and ":" password "@",    *)
(* which Display writes for a password without a username (lib.rs:255);   *)
(* the grammar of spec.md does not have that form.                        *)
ParseUserinfo(u) ==
  LET pairs ==
        CASE u = <<>> -> <<>>
          [] Len(u) = 1 /\ IsWord(u[1]) -> <<Leaf("username", u[1])>>
          [] Len(u) = 2 /\ u[1] = ":" /\ IsWord(u[2]) -> <<Leaf("password", u[2])>>
          [] Len(u) = 3 /\ IsWord(u[1]) /\ u[2] = ":" /\ IsWord(u[3]) ->
               <<Leaf("username", u[1]), Leaf("password", u[3])>>
          [] OTHER -> <<Leaf("error", "")>>
  IN IF pairs = <<Leaf("error", "")>> THEN Fail
     ELSE Ok(<<Pair("username_with_password", "", pairs)>>)

(* params := "?" pair ("&" pair)*; pair := name "=" value                  *)
ParseParams(p) ==
  LET parts == SplitOn(p, "&") IN
  IF \A i \in 1..Len(parts) : Len(parts[i]) = 3 /\ IsWord(parts[i][1])
                              /\ parts[i][2] = "=" /\ IsWord(parts[i][3])
  THEN Ok([i \in 1..Len(parts) |->
             Pair("param", "", <<Leaf("name", parts[i][1]), Leaf("value", parts[i][3])>>)])
  ELSE Fail

(* dsn := driver ("+" protocol)? "://" userinfo? endpoint? ("/" database)? *)
(*        params?                                                          *)
(* The dsn rule from its parts: the scheme, userinfo, endpoint, whether a  *)
(* "/" follows and the database text after it, and the params.  A "/"      *)
(* with nothing after it yields no database pair (mdsn's test             *)
(* username_with_password parses "taos:///" to a Dsn with database None).  *)
DsnOf(schemeOk, scheme, ui, ep, hasDb, db, ps) ==
  LET dbOk == \/ ~hasDb
              \/ db = <<>>
              \/ /\ Len(db) = 1 /\ IsWord(db[1])
                 /\ ep.pairs = <<>> \/ ep.pairs[1].rule # "fragment"
  IN IF schemeOk /\ ui.ok /\ ep.ok /\ dbOk /\ ps.ok
     THEN Ok(<<scheme, Leaf("SCHEME_IDENT", "://")>> \o ui.pairs \o ep.pairs
             \o (IF hasDb /\ db # <<>> THEN <<Leaf("database", db[1])>> ELSE <<>>)
             \o ps.pairs \o <<Leaf("EOI", "")>>)
     ELSE Fail
Parse(t) ==
  LET hasProto == Len(t) >= 2 /\ t[2] = "+"
      sl       == IF hasProto THEN 3 ELSE 1
      r   == SubSeq(t, sl + 2, Len(t))
      q   == SelectInSeq(r, LAMBDA x : x = "?")
      m   == IF q = 0 THEN r ELSE SubSeq(r, 1, q - 1)
      at  == SelectInSeq(m, LAMBDA x : x = "@")
      e   == SubSeq(m, at + 1, Len(m))
      sl2 == SelectInSeq(e, LAMBDA x : x = "/")
  IN DsnOf(Len(t) > sl /\ IsWord(t[1]) /\ (hasProto => IsWord(t[3])) /\ t[sl + 1] = "://",
           Pair("scheme", "", <<Leaf("driver", t[1])>> \o
                  (IF hasProto THEN <<Leaf("protocol", t[3])>> ELSE <<>>)),
           IF at = 0 THEN Ok(<<>>) ELSE ParseUserinfo(SubSeq(m, 1, at - 1)),
           ParseEndpoint(IF sl2 = 0 THEN e ELSE SubSeq(e, 1, sl2 - 1)),
           sl2 # 0,
           SubSeq(e, sl2 + 1, Len(e)),
           IF q = 0 THEN Ok(<<>>) ELSE ParseParams(SubSeq(r, q + 1, Len(r))))
-----------------------------------------------------------------------------
(***************************************************************************)
(* Dsn::from_str: the walk over the pairs (lib.rs FromStr for Dsn).        *)
(***************************************************************************)
DefaultAddress == [host |-> None, port |-> None, path |-> None]
DefaultDsn == [driver |-> "", protocol |-> None, username |-> None, password |-> None,
               addresses |-> <<>>, fragment |-> None, database |-> None,
               params |-> [k \in {} |-> None]]

(* One inner pair of an address: host, port parsed to u16 (the model's     *)
(* port texts are all valid), path urlencoding::decode'd.                 *)
(* Variant whose host arm fills the path field.                           *)
AddressStepHostAsPath(a, p) ==
  CASE p.rule = "host" -> [a EXCEPT !.path = p.s]
    [] p.rule = "port" -> [a EXCEPT !.port = p.s]
    [] p.rule = "path" -> [a EXCEPT !.path = decode(p.s)]
AddressStep(a, p) ==
  CASE p.rule = "host" -> [a EXCEPT !.host = p.s]
    [] p.rule = "port" -> [a EXCEPT !.port = PortNum[p.s]]
    [] p.rule = "path" -> [a EXCEPT !.path = decode(p.s)]
WalkAddress(inner) == FoldLeft(AddressStep, DefaultAddress, inner)

SchemeStep(d, p) ==
  CASE p.rule = "driver" -> [d EXCEPT !.driver = p.s]
    [] p.rule = "protocol" -> [d EXCEPT !.protocol = p.s]
UserStep(d, p) ==
  CASE p.rule = "username" -> [d EXCEPT !.username = p.s]
    [] p.rule = "password" -> [d EXCEPT !.password = p.s]
(* Variant without the protocol arm: an inline protocol(...) is lost.      *)
EndpointStepProtocolDropped(d, p) ==
  CASE p.rule = "addresses" ->
         [d EXCEPT !.addresses = @ \o [i \in DOMAIN p.inner |-> WalkAddress(p.inner[i].inner)]]
    [] p.rule = "protocol" -> d
(* Rule::addresses pushes every address in order; Rule::protocol sets the  *)
(* protocol, over the one of the scheme.                                   *)
EndpointStep(d, p) ==
  CASE p.rule = "addresses" ->
         [d EXCEPT !.addresses = @ \o [i \in DOMAIN p.inner |-> WalkAddress(p.inner[i].inner)]]
    [] p.rule = "protocol" -> [d EXCEPT !.protocol = p.s]
(* Rule::param: name and value default to "", then params.insert, which   *)
(* replaces an earlier value of the key.                                   *)
ParamStep(nv, p) ==
  CASE p.rule = "name" -> [nv EXCEPT !.name = p.s]
    [] p.rule = "value" -> [nv EXCEPT !.value = p.s]

Step(d, p) ==
  CASE p.rule = "scheme" -> FoldLeft(SchemeStep, d, p.inner)
    [] p.rule \in {"SCHEME_IDENT", "EOI"} -> d
    [] p.rule = "username_with_password" -> FoldLeft(UserStep, d, p.inner)
    [] p.rule = "protocol_with_addresses" -> FoldLeft(EndpointStep, d, p.inner)
    [] p.rule = "database" -> [d EXCEPT !.database = p.s]
    [] p.rule = "fragment" -> [d EXCEPT !.fragment = p.s]
    [] p.rule = "param" ->
         LET nv == FoldLeft(ParamStep, [name |-> "", value |-> ""], p.inner)
         IN [d EXCEPT !.params = (nv.name :> nv.value) @@ @]
FromPairs(pairs) == FoldLeft(Step, DefaultDsn, pairs)

(***************************************************************************)
(* Display for Address and for Dsn.                                        *)
(***************************************************************************)
DisplayAddress(a) ==
  CASE a.host # None /\ a.port = None /\ a.path = None -> <<a.host>>
    [] a.host # None /\ a.port # None /\ a.path = None -> <<a.host, ":", PortText(a.port)>>
    [] a.host = None /\ a.port # None /\ a.path = None -> <<":", PortText(a.port)>>
    [] a.host = None /\ a.port = None /\ a.path # None -> <<Encode[a.path]>>
    [] a.host = None /\ a.port = None /\ a.path = None -> <<>>
    [] OTHER -> <<"unreachable!">>

(* Variant without the (None, Some(password)) arm.                         *)
UserinfoNoPasswordOnly(d) ==
  CASE d.username # None /\ d.password # None -> <<d.username, ":", d.password, "@">>
    [] d.username # None /\ d.password = None -> <<d.username, "@">>
    [] OTHER -> <<>>
Userinfo(d) ==
  CASE d.username # None /\ d.password # None -> <<d.username, ":", d.password, "@">>
    [] d.username # None /\ d.password = None -> <<d.username, "@">>
    [] d.username = None /\ d.password # None -> <<":", d.password, "@">>
    [] OTHER -> <<>>

(* Display for Dsn; params in key order, k=v joined by &.                  *)
DisplayDsn(d) ==
  LET keys == SelectSeq(KeyOrder, LAMBDA k : k \in DOMAIN d.params) IN
  <<d.driver>> \o (IF d.protocol # None THEN <<"+", d.protocol>> ELSE <<>>) \o <<"://">>
  \o Userinfo(d)
  \o Join([i \in DOMAIN d.addresses |-> DisplayAddress(d.addresses[i])], ",")
  \o (IF d.database # None THEN <<"/", d.database>> ELSE <<>>)
  \o (IF d.fragment # None THEN <<d.fragment>> ELSE <<>>)
  \o (IF keys = <<>> THEN <<>>
      ELSE <<"?">> \o Join([i \in DOMAIN keys |-> <<keys[i], "=", d.params[keys[i]]>>], "&"))
-----------------------------------------------------------------------------
(***************************************************************************)
(* TaosBuilder (taos-ws/src/lib.rs).                                       *)
(***************************************************************************)
(* Variant whose taos arm needs Some("ws" | "http") for ws.               *)
SchemeOfProtocolRequired(d) ==
  CASE d.driver \in {"ws", "http"} -> "ws"
    [] d.driver \in {"wss", "https"} -> "wss"
    [] d.driver \in {"taos", "taosws", "tmq"} /\ d.protocol \in {"ws", "http"} -> "ws"
    [] d.driver \in {"taos", "taosws", "tmq"} /\ d.protocol \in {"wss", "https"} -> "wss"
    [] OTHER -> None

(* The scheme match of from_dsn; None stands for DsnError::InvalidDriver.  *)
SchemeOf(d) ==
  CASE d.driver \in {"ws", "http"} -> "ws"
    [] d.driver \in {"wss", "https"} -> "wss"
    [] d.driver \in {"taos", "taosws", "tmq"} /\ d.protocol \in {"ws", "http", None} -> "ws"
    [] d.driver \in {"taos", "taosws", "tmq"} /\ d.protocol \in {"wss", "https"} -> "wss"
    [] OTHER -> None

(* from_dsn: the scheme, params.remove("token"), the first address's       *)
(* to_string or localhost:6041, Token auth, or Plain auth with root and    *)
(* taosdata for a missing user or password, and the database.              *)
from_dsn(d) ==
  LET token == IF "token" \in DOMAIN d.params THEN d.params["token"] ELSE None IN
  [ok       |-> SchemeOf(d) # None,
   scheme   |-> SchemeOf(d),
   addr     |-> IF d.addresses = <<>> THEN <<"localhost", ":", "6041">>
                ELSE DisplayAddress(d.addresses[1]),
   auth     |-> IF token # None THEN [kind |-> "Token", a |-> token, b |-> None]
                ELSE [kind |-> "Plain",
                      a |-> IF d.username = None THEN "root" ELSE d.username,
                      b |-> IF d.password = None THEN "taosdata" ELSE d.password],
   database |-> d.database]

(* The format! of the three endpoint URLs: {scheme}://{addr}{path}, with  *)
(* ?token={token} for Token auth.                                          *)
EndpointUrl(b, path) ==
  <<b.scheme, "://">> \o b.addr \o <<path>>
  \o (IF b.auth.kind = "Token" THEN <<"?token=", b.auth.a>> ELSE <<>>)

to_query_url(b) == EndpointUrl(b, "/rest/ws")
to_stmt_url(b)  == EndpointUrl(b, "/rest/stmt")
to_tmq_url(b)   == EndpointUrl(b, "/rest/tmq")

-----------------------------------------------------------------------------
(***************************************************************************)
(* DSN texts the grammar produces, built one part at a time.               *)
(***************************************************************************)
VARIABLES driver, sproto, userinfo, addrs, inline, frag, db, params

vars == <<driver, sproto, userinfo, addrs, inline, frag, db, params>>

AddressTexts ==
  {<<h>> : h \in Hosts} \cup {<<h, ":", n>> : h \in Hosts, n \in GenPortTexts}
  \cup {<<":", n>> : n \in GenPortTexts} \cup {<<Encode[p]>> : p \in GenPaths}
UserinfoTexts ==
  {<<"@">>} \cup {<<u, "@">> : u \in Users} \cup {<<":", w, "@">> : w \in Passwords}
  \cup {<<u, ":", w, "@">> : u \in Users, w \in Passwords}

Text ==
  LET as == Join(addrs, ",") IN
  <<driver>> \o (IF sproto # None THEN <<"+", sproto>> ELSE <<>>) \o <<"://">>
  \o userinfo
  \o (IF inline # None THEN <<inline, "(">> \o as \o <<")">> ELSE as)
  \o (IF frag # None THEN <<frag>> ELSE <<>>)
  \o (IF db # None THEN <<"/", db>> ELSE <<>>)
  \o (IF params = <<>> THEN <<>>
      ELSE <<"?">> \o Join([i \in DOMAIN params |-> <<params[i][1], "=", params[i][2]>>], "&"))

Init ==
  /\ driver \in Drivers
  /\ sproto = None /\ userinfo = <<>> /\ addrs = <<>>
  /\ inline = None /\ frag = None /\ db = None /\ params = <<>>

SetProtocol ==
  /\ sproto = None
  /\ sproto' \in Protocols
  /\ UNCHANGED <<driver, userinfo, addrs, inline, frag, db, params>>
SetUserinfo ==
  /\ userinfo = <<>>
  /\ userinfo' \in UserinfoTexts
  /\ UNCHANGED <<driver, sproto, addrs, inline, frag, db, params>>
AddAddress ==
  /\ Len(addrs) < MaxAddrs /\ frag = None /\ inline = None
  /\ \E a \in AddressTexts : addrs' = Append(addrs, a)
  /\ UNCHANGED <<driver, sproto, userinfo, inline, frag, db, params>>
SetInline ==
  /\ inline = None /\ addrs # <<>>
  /\ inline' \in Protocols
  /\ UNCHANGED <<driver, sproto, userinfo, addrs, frag, db, params>>
(* A fragment runs to the end of the endpoint and takes no database.      *)
SetFragment ==
  /\ frag = None /\ addrs = <<>> /\ db = None
  /\ frag' \in GenFrags
  /\ UNCHANGED <<driver, sproto, userinfo, addrs, inline, db, params>>
SetDatabase ==
  /\ db = None /\ frag = None
  /\ db' \in Databases
  /\ UNCHANGED <<driver, sproto, userinfo, addrs, inline, frag, params>>
AddParam ==
  /\ Len(params) < MaxParams
  /\ \E k \in GenKeys, v \in Vals : params' = Append(params, <<k, v>>)
  /\ UNCHANGED <<driver, sproto, userinfo, addrs, inline, frag, db>>

Next ==
  \/ SetProtocol \/ SetUserinfo \/ AddAddress \/ SetInline
  \/ SetFragment \/ SetDatabase \/ AddParam

Spec == Init /\ [][Next]_vars

-----------------------------------------------------------------------------
Parsed == Parse(Text)
TheDsn == FromPairs(Parsed.pairs)

(* The properties below pass each parsed value to a helper as an operator  *)
(* argument, so that TLC's coverage profiler walks Parse and FromPairs     *)
(* once per property.                                                      *)
OptionOf(S) == S \cup {None}
AddressType == [host : OptionOf(Hosts), port : OptionOf(Nat), path : OptionOf(Paths)]
DsnTypeOK(ok, d) ==
  /\ ok
  /\ d.driver \in Drivers
  /\ d.protocol \in OptionOf(Protocols)
  /\ \A i \in DOMAIN d.addresses : d.addresses[i] \in AddressType
  /\ DOMAIN d.params \subseteq Keys
TypeOKOf(p) == DsnTypeOK(p.ok, FromPairs(p.pairs))
ReparsesTo(again, d) == again.ok /\ FromPairs(again.pairs) = d
RoundTripOf(d) == ReparsesTo(Parse(DisplayDsn(d)), d)

(* Spec section 5's endpoint table, written out from the spec.            *)
SpecScheme(d) ==
  IF d.driver \in {"ws", "http"} THEN "ws"
  ELSE IF d.driver \in {"wss", "https"} THEN "wss"
  ELSE IF d.driver \notin {"taos", "taosws", "tmq"} THEN None
  ELSE IF d.protocol = None THEN "ws"
  ELSE IF d.protocol \in {"ws", "http"} THEN "ws"
  ELSE IF d.protocol \in {"wss", "https"} THEN "wss"
  ELSE None
UrlMatches(d, b, scheme) ==
  /\ b.ok <=> scheme # None
  /\ b.ok =>
       \A e \in {<<to_query_url(b), "/rest/ws">>, <<to_stmt_url(b), "/rest/stmt">>,
                 <<to_tmq_url(b), "/rest/tmq">>} :
         e[1] = <<scheme, "://">>
                \o (IF addrs = <<>> THEN <<"localhost", ":", "6041">> ELSE addrs[1])
                \o <<e[2]>>
                \o (IF "token" \in DOMAIN d.params
                    THEN <<"?token=", d.params["token"]>> ELSE <<>>)
QueryUrlOf(d) == UrlMatches(d, from_dsn(d), SpecScheme(d))

(* The text parses, and the Dsn from_str builds has the field types of     *)
(* struct Dsn and Address.                                                 *)
TypeOK == TypeOKOf(Parsed)

(* Spec 4.1: re-parsing the Display of a parsed Dsn gives the same Dsn;    *)
(* the inline form proto(addrs) prints as driver+proto://addrs, a          *)
(* socket path is re-encoded, params print in key order with the last     *)
(* value of a repeated key.                                                *)
DsnRoundTrip == RoundTripOf(TheDsn)

(* The builder accepts exactly the DSNs whose driver and protocol (from    *)
(* the scheme, or the inline proto(...) that overrides it) select ws or   *)
(* wss in the spec's table, and its query URL is                           *)
(* {scheme}://{first address as the DSN wrote it}/rest/ws, and the        *)
(* statement and stream URLs end in /rest/stmt and /rest/tmq (spec section *)
(* 5), each with the token parameter, if any, as ?token=.                  *)
QueryUrl == QueryUrlOf(TheDsn)
=============================================================================
