\* Two users, two requests at once, and one channel in all the roles; another name is no channel's.
CONSTANTS
    User = {u1, u2}
    Nobody = Nobody
    Token = {t1, t2, t3}
    Request = {q1, q2}
    Name = {osu, typo}
    Channel = {osu}
    AutoJoin = {osu}
    MultiplayerChannel = osu
    SpectatorChannel = osu
SPECIFICATION Spec
SYMMETRY Symmetry
INVARIANT OneSession
