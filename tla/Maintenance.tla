----------------------------- MODULE Maintenance -----------------------------
(* The maintenance commands beside each other: servers that start and migrate the
   schema, and the backfills that fill in columns of a stored transcript.  Each
   statement of one may fall between any two of the other. *)
EXTENDS Migrations, Backfills

MaintenanceInit == MigrationsInit /\ BackfillsInit

MaintenanceNext ==
    \/ MigrationsNext /\ UNCHANGED backfillVars
    \/ BackfillsNext /\ UNCHANGED migrationVars

maintenanceVars == <<migrationVars, backfillVars>>

MaintenanceSpec == MaintenanceInit /\ [][MaintenanceNext]_maintenanceVars

(* What the maintenance commands owe the tables they change: every migration once
   and in order (RunMigrations), and columns that describe the body they were
   taken from (the compare-and-set statements of the backfills). *)
MaintenanceHolds == SchemaComplete /\ DerivedCurrent
=============================================================================
