---------------------------- MODULE MCRoadmapSync ----------------------------
(* A package that is replanned, reordered and done, and a second one that    *)
(* joins it.                                                                 *)
EXTENDS RoadmapSync

Package(id, phase, wave, status, covers) ==
    [id |-> id, phase |-> phase, wave |-> wave, title |-> "t", status |-> status, covers |-> covers]

MCPhases == <<"P0">>
MCTierOf == [C1 |-> "core", C2 |-> "core"]

MCRoadmaps == {
    <<Package("a", "P0", 1, "planned", {"C1"})>>,
    <<Package("a", "P0", 2, "reordered", {"C1"})>>,
    <<Package("a", "P0", 1, "done", {"C1"}), Package("b", "P0", 1, "in_progress", {})>>}

MCSyncConfigs ==
    {[banned_labels |-> {"wontfix"}, dry_run_default |-> TRUE,
      allowed_apply_contexts |-> {"release-workflow"}]}
=============================================================================
