SPECIFICATION RoomSpec
CONSTANTS
    film1 = film1
    film2 = film2
    Viewers = {v1, v2}
    Granted = {v1}
    Titles = {film1, film2}
    TitleOf <- MCTitleOf
    MaxParties = 2
    MaxMoves = 5
INVARIANTS RoomTypeOK NoGhosts AudienceSettles EndTold MembersSeated
CHECK_DEADLOCK FALSE
