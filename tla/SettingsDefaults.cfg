CONSTANTS
    NChunks = 2
    MaxVersion = 1
SPECIFICATION Spec
PROPERTY DefaultsAnnounced
