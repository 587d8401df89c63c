------------------------------ MODULE DsnTests ------------------------------
(***************************************************************************)
(* The unit tests of mdsn (src/mdsn/src/lib.rs), each a sequence of cases: *)
(* a DSN text as tokens, the fields of Dsn the test asserts of             *)
(* Dsn::from_str's result, and the text it asserts of to_string, if any.   *)
(* A fragment is one token, like the socket and file paths the tests use;  *)
(* the model (MCDsn) gives the parser the texts the tests use: their      *)
(* fragments, ports, encoded paths and parameter keys.                    *)
(***************************************************************************)
EXTENDS Dsn

(* Address::new and Address::from_host.                                    *)
AddressNew(h, p) == [host |-> h, port |-> p, path |-> None]
from_host(h) == [host |-> h, port |-> None, path |-> None]

(* A struct literal Dsn { .., ..Default::default() }.                       *)
DsnLiteral(fields) == fields @@ DefaultDsn

Case(text, fields, shown) == [text |-> text, fields |-> fields, shown |-> shown]
NoShow == <<"no to_string assertion">>

username_with_password ==
  << Case(<<"taos", "://">>, DsnLiteral([driver |-> "taos"]), <<"taos", "://">>),
     Case(<<"taos", "://", "/">>, DsnLiteral([driver |-> "taos"]), <<"taos", "://">>),
     Case(<<"taos", "://", "root", "@">>,
          DsnLiteral([driver |-> "taos", username |-> "root"]),
          <<"taos", "://", "root", "@">>),
     Case(<<"taos", "://", "root", ":", "taosdata", "@">>,
          DsnLiteral([driver |-> "taos", username |-> "root", password |-> "taosdata"]),
          <<"taos", "://", "root", ":", "taosdata", "@">>) >>

host_port_mix ==
  << Case(<<"taos", "://", "localhost">>,
          DsnLiteral([driver |-> "taos", addresses |-> <<from_host("localhost")>>]),
          <<"taos", "://", "localhost">>),
     Case(<<"taos", "://", "root", "@", ":", "6030">>,
          DsnLiteral([driver |-> "taos", username |-> "root",
                      addresses |-> <<[host |-> None, port |-> 6030, path |-> None]>>]),
          <<"taos", "://", "root", "@", ":", "6030">>),
     Case(<<"taos", "://", "root", "@", "localhost", ":", "6030">>,
          DsnLiteral([driver |-> "taos", username |-> "root",
                      addresses |-> <<AddressNew("localhost", 6030)>>]),
          <<"taos", "://", "root", "@", "localhost", ":", "6030">>) >>

username_with_host ==
  << Case(<<"taos", "://", "root", "@", "localhost">>,
          DsnLiteral([driver |-> "taos", username |-> "root",
                      addresses |-> <<from_host("localhost")>>]),
          <<"taos", "://", "root", "@", "localhost">>),
     host_port_mix[2],
     Case(<<"taos", "://", "root", "@", "localhost", ":", "6030">>,
          DsnLiteral([driver |-> "taos", username |-> "root",
                      addresses |-> <<AddressNew("localhost", 6030)>>]),
          NoShow),
     Case(<<"taos", "://", "root", ":", "taosdata", "@", "localhost", ":", "6030">>,
          DsnLiteral([driver |-> "taos", username |-> "root", password |-> "taosdata",
                      addresses |-> <<AddressNew("localhost", 6030)>>]),
          <<"taos", "://", "root", ":", "taosdata", "@", "localhost", ":", "6030">>) >>

TwoHosts(h1, h2) == <<h1, ":", "6030", ",", h2, ":", "6031">>

username_with_multi_addresses ==
  << Case(<<"taos", "://", "root", "@">> \o TwoHosts("host1.domain", "host2.domain"),
          DsnLiteral([driver |-> "taos", username |-> "root",
                      addresses |-> <<AddressNew("host1.domain", 6030),
                                      AddressNew("host2.domain", 6031)>>]),
          <<"taos", "://", "root", "@">> \o TwoHosts("host1.domain", "host2.domain")),
     Case(<<"taos", "://", "root", ":", "taosdata", "@">> \o TwoHosts("host1", "host2"),
          DsnLiteral([driver |-> "taos", username |-> "root", password |-> "taosdata",
                      addresses |-> <<AddressNew("host1", 6030), AddressNew("host2", 6031)>>]),
          <<"taos", "://", "root", ":", "taosdata", "@">> \o TwoHosts("host1", "host2")) >>

db_only ==
  LET c == Case(<<"taos", "://", "/", "db1">>,
                DsnLiteral([driver |-> "taos", database |-> "db1"]),
                <<"taos", "://", "/", "db1">>)
  IN <<c, c>>

username_with_multi_addresses_database ==
  LET hosts == <<AddressNew("host1", 6030), AddressNew("host2", 6031)>> IN
  << Case(<<"taos", "://", "root", "@">> \o TwoHosts("host1", "host2") \o <<"/", "db1">>,
          DsnLiteral([driver |-> "taos", username |-> "root", database |-> "db1",
                      addresses |-> hosts]),
          <<"taos", "://", "root", "@">> \o TwoHosts("host1", "host2") \o <<"/", "db1">>),
     Case(<<"taos", "://", "root", ":", "taosdata", "@">> \o TwoHosts("host1", "host2")
            \o <<"/", "db1">>,
          DsnLiteral([driver |-> "taos", username |-> "root", password |-> "taosdata",
                      database |-> "db1", addresses |-> hosts]),
          <<"taos", "://", "root", ":", "taosdata", "@">> \o TwoHosts("host1", "host2")
            \o <<"/", "db1">>) >>

protocol ==
  LET d == DsnLiteral([driver |-> "taos", username |-> "root", database |-> "db1",
                       protocol |-> "tcp",
                       addresses |-> <<AddressNew("host1", 6030), AddressNew("host2", 6031)>>])
      shown == <<"taos", "+", "tcp", "://", "root", "@">> \o TwoHosts("host1", "host2")
               \o <<"/", "db1">>
  IN << Case(<<"taos", "://", "root", "@", "tcp", "(">> \o TwoHosts("host1", "host2")
               \o <<")", "/", "db1">>, d, shown),
        Case(shown, d, shown) >>

fragment ==
  << Case(<<"postgresql", "://", "%2Fvar%2Flib%2Fpostgresql", "/", "dbname">>,
          DsnLiteral([driver |-> "postgresql", database |-> "dbname",
                      addresses |-> <<[host |-> None, port |-> None,
                                       path |-> "/var/lib/postgresql"]>>]),
          <<"postgresql", "://", "%2Fvar%2Flib%2Fpostgresql", "/", "dbname">>),
     Case(<<"unix", "://", "/path/to/unix.sock">>,
          DsnLiteral([driver |-> "unix", fragment |-> "/path/to/unix.sock"]),
          <<"unix", "://", "/path/to/unix.sock">>),
     Case(<<"sqlite", "://", "/c:/full/windows/path/to/file.db">>,
          DsnLiteral([driver |-> "sqlite", fragment |-> "/c:/full/windows/path/to/file.db"]),
          <<"sqlite", "://", "/c:/full/windows/path/to/file.db">>),
     Case(<<"sqlite", "://", "./file.db">>,
          DsnLiteral([driver |-> "sqlite", fragment |-> "./file.db"]),
          <<"sqlite", "://", "./file.db">>),
     Case(<<"sqlite", "://", "root", ":", "pass", "@", "/full/unix/path/to/file.db",
            "?", "mode", "=", "0666", "&", "readonly", "=", "true">>,
          DsnLiteral([driver |-> "sqlite", username |-> "root", password |-> "pass",
                      fragment |-> "/full/unix/path/to/file.db",
                      params |-> ("mode" :> "0666" @@ "readonly" :> "true")]),
          <<"sqlite", "://", "root", ":", "pass", "@", "/full/unix/path/to/file.db",
            "?", "mode", "=", "0666", "&", "readonly", "=", "true">>) >>

(* The test named params.                                                  *)
test_params ==
  << Case(<<"taos", "://", "?", "abc", "=", "abc">>,
          DsnLiteral([driver |-> "taos", params |-> ("abc" :> "abc")]),
          <<"taos", "://", "?", "abc", "=", "abc">>),
     Case(<<"taos", "://", "root", "@", "localhost", "?", "abc", "=", "abc">>,
          DsnLiteral([driver |-> "taos", username |-> "root",
                      addresses |-> <<from_host("localhost")>>,
                      params |-> ("abc" :> "abc")]),
          <<"taos", "://", "root", "@", "localhost", "?", "abc", "=", "abc">>) >>

(* parse_taos_tmq only unwraps; tmq_ws_driver checks the driver.           *)
parse_taos_tmq ==
  << Case(<<"taos", "://", "root", ":", "taosdata", "@", "localhost", "/",
            "aa23d04011eca42cf7d8c1dd05a37985", "?", "topics", "=",
            "aa23d04011eca42cf7d8c1dd05a37985", "&", "group.id", "=", "tg2">>,
          [f \in {} |-> None], NoShow) >>
tmq_ws_driver ==
  << Case(<<"tmq", "+", "ws", "://", "/", "abc1", "?", "group.id", "=", "abc3", "&",
            "timeout", "=", "50ms">>, [driver |-> "tmq"], NoShow) >>

DsnCases ==
  username_with_password \o host_port_mix \o username_with_host
  \o username_with_multi_addresses \o db_only \o username_with_multi_addresses_database
  \o protocol \o fragment \o test_params \o parse_taos_tmq \o tmq_ws_driver

(* Address::from_str: the address rule's pairs, walked as in the address   *)
(* arm of Dsn::from_str.                                                   *)
AddressFromStr(a) ==
  LET p == ParseAddress(a) IN [ok |-> p.ok, addr |-> WalkAddress(p.pairs)]

(* addr_parse: "taosdata:6030" prints back; an encoded path decodes.       *)
addr_parse ==
  << [text |-> <<"taosdata", ":", "6030">>, path |-> None,
      shown |-> <<"taosdata", ":", "6030">>],
     [text |-> <<"%2Fvar%2Flib%2Ftaos">>, path |-> "/var/lib/taos",
      shown |-> <<"%2Fvar%2Flib%2Ftaos">>] >>

-----------------------------------------------------------------------------
DsnCaseHolds(c, p) ==
  LET d == FromPairs(p.pairs) IN
  /\ p.ok
  /\ \A f \in DOMAIN c.fields : d[f] = c.fields[f]
  /\ c.shown # NoShow => DisplayDsn(d) = c.shown
AddrCaseHolds(c, r) ==
  /\ r.ok
  /\ r.addr.path = c.path
  /\ DisplayAddress(r.addr) = c.shown

(* Every assertion of mdsn's unit tests holds of the model: Dsn::from_str  *)
(* (the walk translated from the source, over the grammar of the spec)     *)
(* returns the Dsn each test expects, Display prints the text it expects,  *)
(* and Address::from_str and Display for Address do what addr_parse says.  *)
CodeTestsAgree ==
  /\ \A i \in DOMAIN DsnCases : DsnCaseHolds(DsnCases[i], Parse(DsnCases[i].text))
  /\ \A i \in DOMAIN addr_parse : AddrCaseHolds(addr_parse[i], AddressFromStr(addr_parse[i].text))
=============================================================================
