\* Texts of up to four lines that are empty, short, as long as the bound or longer.
CONSTANTS
  MaxChars = 3
  Sizes = {0, 1, 3, 4}
  MaxLines = 4
  Layouts <- SomeLayouts

SPECIFICATION FairSpec
INVARIANT ChunksFaithful
PROPERTY ChunkingEnds
