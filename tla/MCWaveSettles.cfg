SPECIFICATION FairMatrixSpec
CONSTANTS Slots = {a1, a2} LaunchLimit = 1 ArtifactLimit = 2 MaxRestarts = 0
PROPERTY WaveSettles
CHECK_DEADLOCK FALSE
