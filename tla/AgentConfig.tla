---------------------------- MODULE AgentConfig ----------------------------
(***************************************************************************)
(* The environment an agent command is started with and the checks of      *)
(* config.Load.                                                            *)
(*                                                                         *)
(* A URL is its scheme and whether it parses and has a host, an agent key  *)
(* is a name and whether it has the documented format, a state directory   *)
(* is what can be done with it.                                            *)
(***************************************************************************)
CONSTANT AgentKeys   \* agent keys of the documented format

Schemes == {"https", "http", "ws", "wss", "other"}

Environments ==
  [scheme : Schemes, url : {"good", "unparsable", "nohost"},
   insecure : BOOLEAN, key : AgentKeys, keyFormat : BOOLEAN,
   dir : {"writable", "readonly", "empty"}]

validateServerURL(e) ==
  /\ e.url = "good"
  /\ e.scheme = "https" \/ (e.scheme = "http" /\ e.insecure)

\* A temp file is made and removed, which leaves nothing behind.
validateStateDirWritable(e) == e.dir = "writable"

\* Load and Validate.
Load(e) ==
  /\ validateServerURL(e)
  /\ e.keyFormat
  /\ validateStateDirWritable(e)

\* The environments a command gets past Load with.
Accepted == {e \in Environments : Load(e)}
=============================================================================
