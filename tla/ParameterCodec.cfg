SPECIFICATION CodecSpec
CONSTANTS
  Chosen = {"P710", "PS19091", "PS18001", "PS18074", "A510", "P100", "PS20113", "PS20125", "PS18040", "P170", "PS18050", "PS18077", "PS20096", "PS19001", "PS22027", "PS21050D", "PS22087B", "PS25007A", "PS25142"}
  Tried = {0, 2, 35}
  Shared = {"PS19001", "PS22027"}
  MaxWrites = 2
  MaxAppFrames = 1
INVARIANTS RoundTrip FrameLegal
PROPERTIES OthersStay ChoiceKept
CHECK_DEADLOCK FALSE
