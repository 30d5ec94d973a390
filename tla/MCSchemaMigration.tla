------------------------- MODULE MCSchemaMigration -------------------------
(***************************************************************************)
(* An instance of SchemaMigration for TLC.                                 *)
(***************************************************************************)
EXTENDS SchemaStages

\* A fresh deployment, ci.yml's way down and up again, a return to base, every
\* single revision up and down, and an upgrade of an installation left behind.
MCCommands ==
    {<<0, HeadVersion>>, <<HeadVersion, 40>>, <<40, HeadVersion>>, <<40, 0>>}
      \cup {<<v - 1, v>> : v \in 1..HeadVersion} \cup {<<v, v - 1>> : v \in 1..HeadVersion}

=============================================================================
