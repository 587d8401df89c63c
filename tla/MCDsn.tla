------------------------------- MODULE MCDsn -------------------------------
(* Model values for Dsn.  The parser knows the texts of mdsn's unit tests  *)
(* (their file and socket paths as fragments, ports 6030 and 6031, two     *)
(* encoded paths, their parameter keys) besides the generator's own: one  *)
(* fragment, one port, one socket path, a key and the token parameter.    *)
EXTENDS DsnTests

MCFrags == {"./f", "/path/to/unix.sock", "/c:/full/windows/path/to/file.db",
            "./file.db", "/full/unix/path/to/file.db"}
MCPortNum == "6030" :> 6030 @@ "6031" :> 6031
MCEncode == "/s" :> "%2Fs" @@ "/var/lib/postgresql" :> "%2Fvar%2Flib%2Fpostgresql"
            @@ "/var/lib/taos" :> "%2Fvar%2Flib%2Ftaos"
(* Keys in the byte order of a BTreeMap.                                    *)
MCKeyOrder == <<"abc", "group.id", "k", "mode", "readonly", "timeout", "token",
                "topics">>
=============================================================================
