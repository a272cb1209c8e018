SPECIFICATION SchemaSpec
INVARIANT FirstRunMigrates
