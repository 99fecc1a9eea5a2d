---------------------------- MODULE MCKeyMigrate ----------------------------
(***************************************************************************)
(* Instances of KeyMigrate for TLC.                                        *)
(***************************************************************************)
EXTENDS KeyMigrate

Start(m, variable, scarce, kill) ==
  [mode |-> m, variable |-> variable, scarce |-> scarce, kill |-> kill]

(* Keys of fixed size.  A write-back B has memory for what it is sent, and with data that  *)
(* the database does not have A is killed between two handlers only, not inside of one:    *)
(* between the purge of a moved key and its mark that would cost the row.                  *)
FixedKeys == {Start("SYNC", FALSE, TRUE, KillPoint),
              Start("ASYNC", FALSE, FALSE, {}),
              Start("CACHE_ONLY", FALSE, TRUE, {})}

VariableKeys == {Start("SYNC", TRUE, FALSE, {})}
=============================================================================
