SPECIFICATION Spec
CONSTANTS
    Matrix <- MatrixValue
    Handmade <- HandmadeValue
    Earlier <- EarlierValue
    Developers = {dev}
    Bits = {1, 2}
    MaxAttempts = 2
    MaxRuns = 1
    MaxByHand = 1
    NoManifest = NoManifest
    Unpinned = Unpinned
    Broken = Broken
    NoBundle = NoBundle
    NoRequest = NoRequest
INVARIANTS PushedIsWhole PinsInstallable MergeNeverRefused
PROPERTY ForeignPinsKept
