-------------------------- MODULE MCServiceInstall --------------------------
(* Instances of ServiceInstall for TLC. *)
EXTENDS ServiceInstall, TLC

CONSTANTS ollama, qdrant, kiwix, c1, c2, c3

\* Ollama needs Qdrant, as in service_seeder.ts; nothing else depends on anything.
MCDependsOn == [s \in Service |-> IF s = ollama THEN qdrant ELSE None]
MCOffers == [s \in Service |-> IF s = kiwix THEN {"update", "affect"}
                               ELSE IF s = qdrant THEN {"install", "reinstall", "update"}
                               ELSE {"install"}]
InstallOnly == [s \in Service |-> {"install"}]
UpdateOnly == [s \in Service |-> {"update"}]

Calls == Permutations(Call)
=============================================================================
