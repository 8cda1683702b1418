\* Fetches of up to four pages, with messages arriving between them.
CONSTANTS
    PageSize    = 2
    MaxMessages = 7
SPECIFICATION Spec
INVARIANTS
    FetchFindsWhatWasThere
    CursorPassesNothing
