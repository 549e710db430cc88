----------------------------- MODULE MCDiscovery -----------------------------
(***************************************************************************)
(* An instance of Discovery for TLC: for each way in which an image name   *)
(* can meet the rules or miss them an image, ports at the edges of their   *)
(* range.                                                                  *)
(***************************************************************************)
EXTENDS Discovery

IdSymmetry == Permutations(Ids)

Image(h, p, t, d, db) == [host |-> h, path |-> p, tag |-> t, digest |-> d, db |-> db]

MCImages ==
  { Image("dotted", << <<"postgres">> >>, TRUE, TRUE, "postgresql"),
    Image("none", << <<"postgres", "ql">> >>, TRUE, FALSE, "postgresql"),
    Image("none", << <<"mysql", "8">> >>, FALSE, FALSE, "mysql"),
    Image("none", << <<"mysql", "d-exporter">> >>, FALSE, FALSE, ""),
    Image("port", << <<"bitnami">>, <<"mongo", "db">> >>, TRUE, FALSE, "mongodb"),
    Image("plain", << <<"mariadb">> >>, TRUE, FALSE, "mariadb"),
    Image("dotted", << <<"library">>, <<"postgres">> >>, TRUE, FALSE, "postgresql"),
    Image("none", << <<"redis">>, <<"redisinsight">> >>, TRUE, FALSE, "vendor"),
    Image("none", << <<"percona">>, <<"percona-server-mongodb">> >>, TRUE, FALSE, "vendor") }

MCWirings ==
  { [nets |-> {}, ports |-> {}],
    [nets |-> {"front"}, ports |-> {[port |-> 1, host |-> 0, proto |-> ""]}],
    [nets |-> {"back"}, ports |-> {[port |-> 5432, host |-> 65535, proto |-> "tcp"],
                                   [port |-> 5432, host |-> 1, proto |-> "tcp"]}] }

MCEnvEntries ==
  { [key |-> "POSTGRES_PASSWORD", val |-> "secret", eq |-> TRUE],
    [key |-> "PATH", val |-> "/bin", eq |-> TRUE],
    [key |-> "MYSQL_USER", val |-> "", eq |-> FALSE] }
=============================================================================
