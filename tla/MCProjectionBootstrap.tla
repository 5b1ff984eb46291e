------------------------ MODULE MCProjectionBootstrap -------------------------
(* Instances of ProjectionBootstrap for TLC: a release that knows only the *)
(* threads, one that adds a required projector, and one with a third that  *)
(* no snapshot sequence depends on.                                        *)
EXTENDS ProjectionBootstrap

CONSTANTS threads, plans, tasks

RegistryOrder == <<plans, threads, tasks>>
ReleaseHistory == {{threads}, {threads, plans}, {threads, plans, tasks}}

=============================================================================
