---------------------------- MODULE MCAPIProcess ----------------------------
(* A small instance of APIProcess for TLC. *)
EXTENDS APIProcess

CONSTANTS c1, p1, api, worker

OneClient == {c1}
OneProject == {p1}
ApiAndWorker == {api, worker}

\* Opening the database shares only opening[api] with the rest, which is read before
\* the API serves: its steps are interleaved with nothing but each other.
OpeningFirst ==
  /\ main = "opening" \/ UNCHANGED migrationVars
  /\ main' # "opening" => \A p \in Process : opening[p] \in {"ready", "down"}
=============================================================================
