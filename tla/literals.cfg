SPECIFICATION LiteralSpec
CONSTANT Inputs <- MCInputs
INVARIANTS WritesInside  LastCodePoint 
