CONSTANT Inputs <- MCInputs
SPECIFICATION ListSpec
INVARIANT ListAlwaysRestored
