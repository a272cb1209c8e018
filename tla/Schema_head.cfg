SPECIFICATION SchemaSpec
INVARIANT HeadServes
