SPECIFICATION Spec
INVARIANTS ProgramsDoTheirWork ShellKeepsTrack
CHECK_DEADLOCK FALSE
