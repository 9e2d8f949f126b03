SPECIFICATION EncSpec
CONSTANTS
    CLEN_BYTES = 2
    ONETIMEAUTH_BYTES = 1
    BUF_SIZE = 4
    Lens = {0, 1, 4}
    MaxFrames = 3
    Methods = {"table", "chacha20", "chacha20-ietf", "evp"}
    SODIUM_BLOCK_SIZE = 2
    WORD = 4
    IvLen = 1
    Octets <- MCOctets
    IV_LEN = 2
    DG_AUTH_BYTES = 2
    MAX_UDP_PACKET_SIZE = 10
    DgWorlds <- MCDgWorlds
    BYTES = 8
    ROUNDS = 5
    Setups <- MCSetups
    JsonInputs <- MCJsonInputs
    Boots <- MCBoots
    MAX_REMOTE_NUM = 2
    MAX_DNS_NUM = 1
    MAX_PORT_NUM = 2
    HALF = 2
    SIZE_MAX = 31
    PAGE = 4
    CANARY = 2
    BLOCK = 8
    SuCases <- MCSuCases
    HBLOCK = 4
    HWORD = 32
    TWORD = 8
    HASHLEN = 2
    OUTBYTES = 2
    KEYBYTES = 4
    HashCases <- MCHashCases
    STREAM_BLOCK = 4
    ZEROBYTES = 2
    MACBYTES = 1
    PKBYTES = 1
    MEM = 9
    BoxCases <- MCBoxCases
    BYTE_BITS = 3
    CHAR_BITS = 2
    WORD_BITS = 4
    SALT_LEN = 3
    HASH_LEN = 2
    OPSLIMIT_MIN = 16
    SCRYPT_R = 2
    BLOCK_R = 8
    SCRYPT_SIZE_MAX = 511
    RP_MAX = 63
    N_MAX = 32
    ScryptCases <- MCScryptCases
    NTRIES = 7
    IN4_LEN = 2
    IN6_LEN = 4
    PORT_LEN = 2
    SocketCases <- MCSocketCases
    PORT_CELLS = 2
    PASSWORD_CELLS = 2
    PING_SIZE = 40
    PREFIX_LEN = 7
    TextCases <- MCTextCases
    BYTE = 32
    TEN = 4
    DNS_MAXDN = 11
    DNS_MAXNAME = 45
    HSIZE = 2
    JUMPS = 3
    ADDR4 = 2
    ADDR6 = 2
    DnsCases <- MCDnsCases
    GROUPS = 5
    AddressCases <- MCAddressCases
    DNS_MAXSERV = 2
    SRCHBUF = 7
    UINT = 131072
    Contexts = {1, 2}
    Queries = {1, 2, 3}
    Ids = {1, 2, 3, 4}
    UcCases <- MCUcCases
    RNG_WORDS = 2
    RNG_RANGE = 16
    RNG_CHUNK = 4
    RngSteps = 5
    RngCases <- MCRngCases
INVARIANTS
    ChunksSound
    Decrypts
    KeystreamOnce
    
    SetupSound
    TextsRead
    
    
    
CHECK_DEADLOCK FALSE
