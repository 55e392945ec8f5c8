---------------------------- MODULE MCBootstrap -----------------------------
(* A template of five files, each with the placeholders it has in the repository. *)
EXTENDS Bootstrap

MCFiles == {"pyproject.toml", "ci.yml", "template-only.yml", ".env.example", ".env"}
MCHolds == [f \in MCFiles |->
  CASE f = "pyproject.toml" -> {"SLUG", "DESCRIPTION", "OWNER"}
    [] f = "ci.yml" -> {"SLUG"}
    [] f = "template-only.yml" -> PlaceholderNames
    [] OTHER -> {"PORT", "SLUG", "SERVICE"}]
=============================================================================
