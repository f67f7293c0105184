CONSTANTS
    Emails = {e}
    Ips = {i, j, k}
    Attempts = {a, b}
    LOGIN_FAIL_WINDOW = 2
    LOGIN_FAIL_MAX_PER_IP = 1
    LOGIN_FAIL_MAX_PER_EMAIL = 3
    Second = 2
    MaxNow = 3
    MaxFailures = 5
    MaxOthers = 1
SPECIFICATION Spec
SYMMETRY Symmetry
INVARIANTS TypeOK IpFailuresBounded EmailFailuresBounded OtherSourcesAdmitted RetryAfterTight
