---------------------------- MODULE MCMigrations ----------------------------
EXTENDS Migrations
=============================================================================
